---- MODULE Spec2Model ----
(***************************************************************************)
(* Model of the three-tier alignment matching engine of Sui-Amor:          *)
(*   app/services/alignment/answer_normalizer.py  (AnswerNormalizer)       *)
(*   app/services/alignment/data_store.py         (AlignmentDataStore)     *)
(*   app/services/alignment/alignment.py          (Alignment)              *)
(*   app/services/alignment/alignment_route.py    (upload / hot reload)    *)
(*                                                                         *)
(* Conventions.                                                            *)
(*  - A text is a sequence of one-character strings.                       *)
(*  - A Python dict is a sequence of [k |-> key, v |-> value] entries in   *)
(*    insertion order, with pairwise distinct keys.                        *)
(*  - An axis profile is an exact rational [num |-> axis -> Int, den]; a   *)
(*    distance is kept as its square, the exact rational [n, d], since     *)
(*    math.sqrt is monotone every comparison of distances is a comparison  *)
(*    of their squares.                                                    *)
(***************************************************************************)
EXTENDS Integers, Sequences, FiniteSets, TLC

VARIABLES
    svc,           \* the Alignment singleton: "down" | "up" | "failed"
    disk,          \* name of the source the file data/alignments.csv holds
    csv_path,      \* AlignmentDataStore.csv_path
    answers,       \* AlignmentDataStore.answers      (dict answer_id -> data)
    alignments,    \* AlignmentDataStore.alignments   (dict alignment_id -> data)
    last_updated,  \* AlignmentDataStore.last_updated (0 is None)
    collection,    \* AlignmentDataStore._collection and the Chroma collection behind it
    normalizer,    \* Alignment.normalizer: [answers_db, text_to_id]
    config,        \* Alignment.axis_distance_threshold / min_results / max_results
    clock,         \* datetime.now(), a logical clock
    r,             \* the thread running __init__ / reload_data / reload_from_csv
    m,             \* the thread running Alignment.match
    p              \* harness of the pure-function specifications

vars == <<svc, disk, csv_path, answers, alignments, last_updated, collection,
          normalizer, config, clock, r, m, p>>

----------------------------------------------------------------------------
(* Bounds of the model.                                                    *)

MaxAnswers == 2        \* raw answer texts in one submission
MaxResultsArg == 1     \* explicit max_results arguments are 0..MaxResultsArg
MaxReloads == 1        \* reloads started after start-up
MaxQueryIds == 2       \* ids in one answer of the neighbor query
MaxSeqLen == 3         \* lengths of the sequences fed to the pure functions

----------------------------------------------------------------------------
(* Generic helpers.                                                        *)

Range(s) == {s[i] : i \in 1..Len(s)}

Min2(a, b) == IF a <= b THEN a ELSE b

\* faulty variant, for sensitivity: the slice keeps the whole list
TakeAll(s, n) == s

\* Python's s[:n] for n >= 0
Take(s, n) == SubSeq(s, 1, Min2(n, Len(s)))

SeqsUpTo(S, n) == UNION {[1..k -> S] : k \in 0..n}

\* Python's sequence filter [x for x in s if Keep(x)]
RECURSIVE SelectIdx(_, _, _)
SelectIdx(s, keep, i) ==
    IF i > Len(s) THEN <<>>
    ELSE (IF i \in keep THEN <<s[i]>> ELSE <<>>) \o SelectIdx(s, keep, i + 1)

RECURSIVE Gcd(_, _)
Gcd(a, b) == IF b = 0 THEN a ELSE Gcd(b, a % b)

Lcm(a, b) == (a * b) \div Gcd(a, b)

RECURSIVE LcmUpTo(_)
LcmUpTo(n) == IF n <= 1 THEN 1 ELSE Lcm(n, LcmUpTo(n - 1))

\* dict helpers -------------------------------------------------------------
DictKeys(d) == {d[i].k : i \in 1..Len(d)}

DictHas(d, key) == \E i \in 1..Len(d) : d[i].k = key

DictGet(d, key) == d[CHOOSE i \in 1..Len(d) : d[i].k = key].v

\* d[key] = value: an existing key keeps its position
DictPut(d, key, value) ==
    IF DictHas(d, key)
    THEN [i \in 1..Len(d) |-> IF d[i].k = key THEN [k |-> key, v |-> value] ELSE d[i]]
    ELSE Append(d, [k |-> key, v |-> value])

DictValues(d) == [i \in 1..Len(d) |-> d[i].v]

----------------------------------------------------------------------------
(* Texts: str.lower, str.strip, str.isalnum, str.isspace, str.split/join.  *)

UpperChars == {"R", "B", "F"}
LowerChars == {"r", "e", "d", "b", "l", "u", "f", "o", "w", "z"}
SpaceChars == {" "}
PunctChars == {"!"}

LowerChar(c) ==
    CASE c = "R" -> "r"
      [] c = "B" -> "b"
      [] c = "F" -> "f"
      [] OTHER -> c

IsSpace(c) == c \in SpaceChars
IsAlnum(c) == c \in UpperChars \cup LowerChars

Lower(t) == [i \in 1..Len(t) |-> LowerChar(t[i])]

RECURSIVE LStrip(_)
LStrip(t) == IF t # <<>> /\ IsSpace(Head(t)) THEN LStrip(Tail(t)) ELSE t

RECURSIVE RStrip(_)
RStrip(t) ==
    IF t # <<>> /\ IsSpace(t[Len(t)]) THEN RStrip(SubSeq(t, 1, Len(t) - 1)) ELSE t

Strip(t) == RStrip(LStrip(t))

\* ' '.join(text.split()): runs of whitespace become one space, none at the ends
RECURSIVE CollapseSpaces(_)
CollapseSpaces(t) ==
    IF t = <<>> THEN <<>>
    ELSE IF IsSpace(Head(t))
         THEN (IF Tail(t) # <<>> /\ ~IsSpace(Head(Tail(t))) THEN <<" ">> ELSE <<>>)
              \o CollapseSpaces(Tail(t))
         ELSE <<Head(t)>> \o CollapseSpaces(Tail(t))

\* AnswerNormalizer._clean_text
CleanText(text) ==
    LET t1 == Strip(Lower(text))
        t2 == SelectIdx(t1, {i \in 1..Len(t1) : IsAlnum(t1[i]) \/ IsSpace(t1[i])}, 1)
    IN  Strip(CollapseSpaces(t2))

\* Python's `a in b` for strings
Contains(hay, needle) ==
    \E i \in 0..(Len(hay) - Len(needle)) :
        \A j \in 1..Len(needle) : hay[i + j] = needle[j]

----------------------------------------------------------------------------
(* Stable sort (list.sort is stable): lt[i, j] says that the key of s[i] is *)
(* strictly smaller than the key of s[j].                                  *)

\* faulty variant, for sensitivity: elements with equal keys come out in
\* reverse order
SortTiesReversed(s, lt) ==
    LET n == Len(s)
        pos(i) == 1 + Cardinality({j \in 1..n : lt[j, i] \/ (~lt[i, j] /\ j > i)})
    IN  [k \in 1..n |-> s[CHOOSE i \in 1..n : pos(i) = k]]

StableSort(s, lt) ==
    LET n == Len(s)
        pos(i) == 1 + Cardinality({j \in 1..n : lt[j, i] \/ (~lt[i, j] /\ j < i)})
    IN  [k \in 1..n |-> s[CHOOSE i \in 1..n : pos(i) = k]]

----------------------------------------------------------------------------
(* Axis profiles.                                                          *)

AxisNames == {"energy", "pace", "orientation", "structure", "expression"}

Axes(e, pa, o, s, x) ==
    [a \in AxisNames |->
        CASE a = "energy" -> e
          [] a = "pace" -> pa
          [] a = "orientation" -> o
          [] a = "structure" -> s
          [] OTHER -> x]

ZeroAxes == [a \in AxisNames |-> 0]

\* a profile whose coordinates are the integers ax[a]
IntProfile(ax) == [num |-> ax, den |-> 1]

RECURSIVE SumSeq(_)
SumSeq(s) == IF s = <<>> THEN 0 ELSE Head(s) + SumSeq(Tail(s))

\* The weighted average of the axes axs[i] with weight 1/i, taken over the
\* positions in `use`; weights are scaled by lcm(1..Len) to stay integral.
\* total_weight = 0 leaves the zero profile (no division).
WeightedAverage(axs, use) ==
    LET n == Len(axs)
        L == LcmUpTo(n)
        w(i) == IF i \in use THEN L \div i ELSE 0
        total == SumSeq([i \in 1..n |-> w(i)])
        weighted == [a \in AxisNames |-> SumSeq([i \in 1..n |-> axs[i][a] * w(i)])]
    IN  IF total > 0 THEN [num |-> weighted, den |-> total]
        ELSE [num |-> weighted, den |-> 1]

\* Alignment._euclidean_distance, squared: sum of (p1[a] - p2[a])^2
EuclideanDistanceSq(profile1, profile2) ==
    LET diff(a) == profile1.num[a] * profile2.den - profile2.num[a] * profile1.den
        sq == [a \in AxisNames |-> diff(a) * diff(a)]
    IN  [n |-> sq["energy"] + sq["pace"] + sq["orientation"] + sq["structure"]
                + sq["expression"],
         d |-> (profile1.den * profile2.den) * (profile1.den * profile2.den)]

\* distance x < distance y, on the squares
DistLess(x, y) == x.n * y.d < y.n * x.d

\* the distance whose value is the number v >= 0
DistOf(v) == [n |-> v * v, d |-> 1]

----------------------------------------------------------------------------
(* The catalog sources: what the file at csv_path can hold.                *)

Red == <<"R", "e", "d">>
Blue == <<"B", "l", "u", "e">>
FlowBang == <<"F", "l", "o", "w", "!">>
FlowText == <<"F", "l", "o", "w">>
blue == <<"b", "l", "u", "e">>
zz == <<"z", "z">>

AllColumns == {"Answer_ID", "Answer_Text", "Category", "Is_Selectable", "Axes",
               "Alignment_ID", "Alignment_Type", "Alignment_Name", "Alignment_Text",
               "Alignment_Components"}

\* a row of an answer option; the alignment cells are empty (NaN)
AnswerRow(id, text, cat, ax) ==
    [Answer_ID |-> id, Answer_Text |-> text, Category |-> cat, Is_Selectable |-> TRUE,
     Axes |-> ax, Alignment_ID |-> "nan", Alignment_Type |-> "", Alignment_Name |-> "",
     Alignment_Text |-> "", Alignment_Components |-> <<>>]

\* a row of an alignment; the answer cells are empty (NaN)
AlignmentRow(id, type, name, comps) ==
    [Answer_ID |-> "nan", Answer_Text |-> <<>>, Category |-> "", Is_Selectable |-> FALSE,
     Axes |-> ZeroAxes, Alignment_ID |-> id, Alignment_Type |-> type,
     Alignment_Name |-> name, Alignment_Text |-> name, Alignment_Components |-> comps]

RowsA ==
    << AnswerRow("COLOR_RED", Red, "color", Axes(3, 0, 0, 0, 0)),
       AnswerRow("COLOR_BLUE", Blue, "color", Axes(0, 0, 0, 0, 0)),
       AnswerRow("NAV_FLOW", FlowBang, "nav", Axes(0, 4, 0, 0, 0)),
       AlignmentRow("SOLO_RED", "SOLO", "Red alone", <<"COLOR_RED">>),
       AlignmentRow("SYNERGY_RED_BLUE", "SYNERGY", "Red and Blue",
                    <<"COLOR_RED", "COLOR_BLUE">>),
       AlignmentRow("HARMONY_RED_FLOW", "HARMONY", "Red and Flow",
                    <<"COLOR_RED", "NAV_FLOW">>),
       AlignmentRow("POLARITY_RED_BLUE", "POLARITY", "Red against Blue",
                    <<"COLOR_RED", "COLOR_BLUE">>),
       AlignmentRow("RESONANCE_FLOW_GOLD", "RESONANCE", "Flow and Gold",
                    <<"NAV_FLOW", "COLOR_GOLD">>) >>

RowsB ==
    << AnswerRow("COLOR_RED", Red, "color", Axes(3, 0, 0, 0, 0)),
       AnswerRow("COLOR_BLUE", Blue, "color", Axes(0, 0, 0, 0, 0)),
       AnswerRow("MOOD_FLOW", FlowText, "mood", Axes(0, 0, 1, 0, 0)),
       AlignmentRow("SOLO_BLUE", "SOLO", "Blue alone", <<"COLOR_BLUE">>),
       AlignmentRow("SOLO_GOLD", "SOLO", "Gold alone", <<"COLOR_GOLD">>) >>

SourceNames ==
    {"A", "B", "missing", "malformed", "no_selectable", "no_answer_id", "no_alignment_id"}

\* exists: Path.exists(); parses: pd.read_csv / read_excel returns a frame
Source(name) ==
    CASE name = "A" ->
            [exists |-> TRUE, parses |-> TRUE, columns |-> AllColumns, rows |-> RowsA]
      [] name = "B" ->
            [exists |-> TRUE, parses |-> TRUE, columns |-> AllColumns, rows |-> RowsB]
      [] name = "missing" ->
            [exists |-> FALSE, parses |-> FALSE, columns |-> {}, rows |-> <<>>]
      [] name = "malformed" ->
            [exists |-> TRUE, parses |-> FALSE, columns |-> {}, rows |-> <<>>]
      [] name = "no_selectable" ->
            [exists |-> TRUE, parses |-> TRUE,
             columns |-> AllColumns \ {"Is_Selectable"}, rows |-> RowsA]
      [] name = "no_answer_id" ->
            [exists |-> TRUE, parses |-> TRUE,
             columns |-> AllColumns \ {"Answer_ID"}, rows |-> RowsB]
      [] OTHER ->
            [exists |-> TRUE, parses |-> TRUE,
             columns |-> AllColumns \ {"Alignment_ID"}, rows |-> RowsB]

\* Alignment() without csv_path: the path every entry point of the service uses
DefaultPath == "data/alignments.csv"

----------------------------------------------------------------------------
(* AlignmentDataStore: what reload_from_csv derives from the data frame.   *)

None == "None"

\* answers_df: the rows whose Is_Selectable is TRUE
AnswerRows(rows) ==
    SelectIdx(rows, {i \in 1..Len(rows) : rows[i].Is_Selectable}, 1)

\* alignments_df: the rows with a non-empty Alignment_Type
AlignmentRows(rows) ==
    SelectIdx(rows, {i \in 1..Len(rows) : rows[i].Alignment_Type # ""}, 1)

\* one iteration of the loop that fills self.answers
PutAnswerRow(ans, row) ==
    IF row.Answer_ID \in {"", "nan"} THEN ans
    ELSE DictPut(ans, row.Answer_ID,
                 [answer_id |-> row.Answer_ID,
                  text |-> Strip(row.Answer_Text),
                  category |-> row.Category,
                  parent |-> None,
                  axes |-> row.Axes])

\* faulty variant, for sensitivity: an unknown component counts with zero axes
ComputeAlignmentAxesMissingAsZero(components, ans) ==
    IF components = <<>> THEN IntProfile(ZeroAxes)
    ELSE WeightedAverage(
            [i \in 1..Len(components) |->
                IF DictHas(ans, components[i]) THEN DictGet(ans, components[i]).axes
                ELSE ZeroAxes],
            1..Len(components))

\* AlignmentDataStore._compute_alignment_axes
ComputeAlignmentAxes(components, ans) ==
    IF components = <<>> THEN IntProfile(ZeroAxes)
    ELSE WeightedAverage(
            [i \in 1..Len(components) |->
                IF DictHas(ans, components[i]) THEN DictGet(ans, components[i]).axes
                ELSE ZeroAxes],
            {i \in 1..Len(components) : DictHas(ans, components[i])})

\* list(set(category of every component found in self.answers)), as a set
ComponentCategories(components, ans) ==
    {DictGet(ans, components[i]).category :
        i \in {j \in 1..Len(components) : DictHas(ans, components[j])}}

\* one iteration of the loop that fills self.alignments
PutAlignmentRow(als, row, ans) ==
    IF row.Alignment_ID \in {"", "nan"} THEN als
    ELSE DictPut(als, row.Alignment_ID,
                 [id |-> row.Alignment_ID,
                  type |-> row.Alignment_Type,
                  name |-> row.Alignment_Name,
                  title |-> row.Alignment_Name,
                  description |-> row.Alignment_Text,
                  components |-> row.Alignment_Components,
                  component_order_matters |-> TRUE,
                  axes |-> ComputeAlignmentAxes(row.Alignment_Components, ans),
                  categories |-> ComponentCategories(row.Alignment_Components, ans)])

RECURSIVE BuildAnswers(_, _)
BuildAnswers(rows, ans) ==
    IF rows = <<>> THEN ans ELSE BuildAnswers(Tail(rows), PutAnswerRow(ans, Head(rows)))

RECURSIVE BuildAlignments(_, _, _)
BuildAlignments(rows, als, ans) ==
    IF rows = <<>> THEN als
    ELSE BuildAlignments(Tail(rows), PutAlignmentRow(als, Head(rows), ans), ans)

\* the catalog a complete, successful load of the source `name` yields
CatalogAnswers(name) == BuildAnswers(AnswerRows(Source(name).rows), <<>>)
CatalogAlignments(name) ==
    BuildAlignments(AlignmentRows(Source(name).rows), <<>>, CatalogAnswers(name))

\* the Chroma collection: `handle` is self._collection ("none" is None,
\* "stale" a handle to a collection that was deleted), `ids` what it indexes
NoCollection == [handle |-> "none", ids |-> {}]

----------------------------------------------------------------------------
(* AnswerNormalizer.                                                       *)

\* one iteration of the loop of _build_lookup_map
PutLookup(t2i, answer) ==
    LET exact == Strip(Lower(answer.text))
        clean_text == CleanText(answer.text)
        t1 == DictPut(t2i, exact, answer.answer_id)
    IN  IF clean_text # exact THEN DictPut(t1, clean_text, answer.answer_id) ELSE t1

RECURSIVE BuildLookupFrom(_, _, _)
BuildLookupFrom(answers_db, i, t2i) ==
    IF i > Len(answers_db) THEN t2i
    ELSE BuildLookupFrom(answers_db, i + 1, PutLookup(t2i, answers_db[i].v))

\* AnswerNormalizer._build_lookup_map
BuildLookupMap(answers_db) == BuildLookupFrom(answers_db, 1, <<>>)

\* AnswerNormalizer.__init__
NewNormalizer(answers_db) ==
    [answers_db |-> answers_db, text_to_id |-> BuildLookupMap(answers_db)]

\* faulty variant, for sensitivity: the last related key wins the substring rule
NormalizeAnswerLastKey(nz, answer_text) ==
    LET t2i == nz.text_to_id
        exact_key == Strip(Lower(answer_text))
        clean_key == CleanText(answer_text)
        hits == {i \in 1..Len(t2i) :
                    /\ Contains(t2i[i].k, clean_key) \/ Contains(clean_key, t2i[i].k)
                    /\ Len(clean_key) > 3}
    IN  IF DictHas(t2i, exact_key) THEN DictGet(t2i, exact_key)
        ELSE IF DictHas(t2i, clean_key) THEN DictGet(t2i, clean_key)
        ELSE IF hits # {} THEN t2i[CHOOSE i \in hits : \A j \in hits : i >= j].v
        ELSE None

\* AnswerNormalizer.normalize_answer
NormalizeAnswer(nz, answer_text) ==
    LET t2i == nz.text_to_id
        exact_key == Strip(Lower(answer_text))
        clean_key == CleanText(answer_text)
        hits == {i \in 1..Len(t2i) :
                    /\ Contains(t2i[i].k, clean_key) \/ Contains(clean_key, t2i[i].k)
                    /\ Len(clean_key) > 3}
    IN  IF DictHas(t2i, exact_key) THEN DictGet(t2i, exact_key)
        ELSE IF DictHas(t2i, clean_key) THEN DictGet(t2i, clean_key)
        ELSE IF hits # {} THEN t2i[CHOOSE i \in hits : \A j \in hits : i <= j].v
        ELSE None

\* the raw texts of a submission in the order normalize_quiz_answers and
\* get_unmatched_answers visit them, each with its index in its own list
RECURSIVE FlattenSubs(_)
FlattenSubs(subs) ==
    IF subs = <<>> THEN <<>>
    ELSE [i \in 1..Len(Head(subs).sub_answers) |->
             [text |-> Head(subs).sub_answers[i], question_order |-> i - 1]]
         \o FlattenSubs(Tail(subs))

RECURSIVE FlattenQuiz(_)
FlattenQuiz(quiz_answers) ==
    IF quiz_answers = <<>> THEN <<>>
    ELSE [i \in 1..Len(Head(quiz_answers).answers) |->
             [text |-> Head(quiz_answers).answers[i], question_order |-> i - 1]]
         \o FlattenSubs(Head(quiz_answers).sub_questions)
         \o FlattenQuiz(Tail(quiz_answers))

RECURSIVE NormalizeFrom(_, _, _)
NormalizeFrom(nz, raw, normalized) ==
    IF raw = <<>> THEN normalized
    ELSE LET answer_id == NormalizeAnswer(nz, Head(raw).text)
         IN  IF answer_id # None /\ DictHas(nz.answers_db, answer_id)
             THEN LET answer_data == DictGet(nz.answers_db, answer_id)
                  IN  NormalizeFrom(nz, Tail(raw),
                         Append(normalized,
                            [answer_id |-> answer_id,
                             selection_order |-> Len(normalized),
                             question_order |-> Head(raw).question_order,
                             axes |-> answer_data.axes,
                             category |-> answer_data.category,
                             text |-> answer_data.text]))
             ELSE NormalizeFrom(nz, Tail(raw), normalized)

\* faulty variant, for sensitivity: the counter starts again at every question
RECURSIVE NormalizeQuizAnswersPerQuestion(_, _)
NormalizeQuizAnswersPerQuestion(nz, quiz_answers) ==
    IF quiz_answers = <<>> THEN <<>>
    ELSE NormalizeFrom(nz, FlattenQuiz(<<Head(quiz_answers)>>), <<>>)
         \o NormalizeQuizAnswersPerQuestion(nz, Tail(quiz_answers))

\* AnswerNormalizer.normalize_quiz_answers (global_order = len(normalized))
NormalizeQuizAnswers(nz, quiz_answers) ==
    NormalizeFrom(nz, FlattenQuiz(quiz_answers), <<>>)

\* faulty variant, for sensitivity: the sub-question answers are not visited
GetUnmatchedAnswersFlatOnly(nz, quiz_answers) ==
    LET raw == FlattenQuiz([i \in 1..Len(quiz_answers) |->
                               [quiz_answers[i] EXCEPT !.sub_questions = <<>>]])
        miss == SelectIdx(raw, {j \in 1..Len(raw) :
                                  NormalizeAnswer(nz, raw[j].text) = None}, 1)
    IN  [i \in 1..Len(miss) |-> miss[i].text]

\* AnswerNormalizer.get_unmatched_answers
GetUnmatchedAnswers(nz, quiz_answers) ==
    LET raw == FlattenQuiz(quiz_answers)
    IN  [i \in 1..Len(SelectIdx(raw, {j \in 1..Len(raw) :
                                        NormalizeAnswer(nz, raw[j].text) = None}, 1)) |->
            SelectIdx(raw, {j \in 1..Len(raw) :
                              NormalizeAnswer(nz, raw[j].text) = None}, 1)[i].text]

----------------------------------------------------------------------------
(* Alignment: the tiers.                                                   *)

\* sorted(normalized_answers, key=selection_order)
SortBySelectionOrder(normalized_answers) ==
    StableSort(normalized_answers,
               [i \in 1..Len(normalized_answers), j \in 1..Len(normalized_answers) |->
                    normalized_answers[i].selection_order
                        < normalized_answers[j].selection_order])

\* the loop of _is_subsequence from user_sequence[k] on, comp_idx = ci - 1
RECURSIVE SubsequenceScan(_, _, _, _)
SubsequenceScan(components, user_sequence, ci, k) ==
    IF k > Len(user_sequence) THEN FALSE
    ELSE IF user_sequence[k] = components[ci]
         THEN (IF ci = Len(components) THEN TRUE
               ELSE SubsequenceScan(components, user_sequence, ci + 1, k + 1))
         ELSE SubsequenceScan(components, user_sequence, ci, k + 1)

\* faulty variant, for sensitivity: the order of the components is not looked at
IsSubsequenceIgnoringOrder(components, user_sequence) ==
    Range(components) \subseteq Range(user_sequence)

\* faulty variant, for sensitivity: an empty component list is rejected
IsSubsequenceRejectsEmpty(components, user_sequence) ==
    IF components = <<>> THEN FALSE
    ELSE SubsequenceScan(components, user_sequence, 1, 1)

\* Alignment._is_subsequence
IsSubsequence(components, user_sequence) ==
    IF components = <<>> THEN TRUE
    ELSE SubsequenceScan(components, user_sequence, 1, 1)

\* faulty variant, for sensitivity: one component among the user's answers is enough
Tier1AcceptsAnyComponent(alignment, user_answer_ids, user_sequence) ==
    Range(alignment.components) \cap user_answer_ids # {}

\* the test of one alignment in the loop of _tier1_exact_match
Tier1Accepts(alignment, user_answer_ids, user_sequence) ==
    /\ Range(alignment.components) \subseteq user_answer_ids
    /\ IF alignment.component_order_matters
       THEN IsSubsequence(alignment.components, user_sequence)
       ELSE TRUE

\* faulty variant, for sensitivity: the matches stay in catalog order
Tier1ExactMatchUnsorted(als, user_answer_ids, normalized_answers) ==
    LET sorted == SortBySelectionOrder(normalized_answers)
        user_sequence == [i \in 1..Len(sorted) |-> sorted[i].answer_id]
        hit == SelectIdx(als, {i \in 1..Len(als) :
                                 Tier1Accepts(als[i].v, user_answer_ids, user_sequence)}, 1)
    IN  [i \in 1..Len(hit) |->
            [alignment |-> hit[i].v,
             distance |-> DistOf(0),
             match_type |-> IF hit[i].v.component_order_matters
                            THEN "exact_ordered" ELSE "exact_unordered"]]

\* Alignment._tier1_exact_match over the dict `als`
Tier1ExactMatch(als, user_answer_ids, normalized_answers) ==
    LET sorted == SortBySelectionOrder(normalized_answers)
        user_sequence == [i \in 1..Len(sorted) |-> sorted[i].answer_id]
        hit == SelectIdx(als, {i \in 1..Len(als) :
                                 Tier1Accepts(als[i].v, user_answer_ids, user_sequence)}, 1)
        exact_matches ==
            [i \in 1..Len(hit) |->
                [alignment |-> hit[i].v,
                 distance |-> DistOf(0),
                 match_type |-> IF hit[i].v.component_order_matters
                                THEN "exact_ordered" ELSE "exact_unordered"]]
    IN  StableSort(exact_matches,
                   [i \in 1..Len(hit), j \in 1..Len(hit) |->
                        Len(exact_matches[i].alignment.components)
                            > Len(exact_matches[j].alignment.components)])

\* Alignment._calculate_user_profile
CalculateUserProfile(normalized_answers) ==
    IF normalized_answers = <<>> THEN IntProfile(ZeroAxes)
    ELSE LET sorted == SortBySelectionOrder(normalized_answers)
         IN  WeightedAverage([i \in 1..Len(sorted) |-> sorted[i].axes], 1..Len(sorted))

\* faulty variant, for sensitivity: every alignment is a candidate
Tier2AxisMatchUnfiltered(als, user_profile, user_categories) ==
    LET candidates ==
            [i \in 1..Len(als) |->
                [alignment |-> als[i].v,
                 distance |-> EuclideanDistanceSq(user_profile, als[i].v.axes),
                 match_type |-> "axis_distance"]]
    IN  StableSort(candidates,
                   [i \in 1..Len(als), j \in 1..Len(als) |->
                        DistLess(candidates[i].distance, candidates[j].distance)])

\* faulty variant, for sensitivity: candidates at the threshold or beyond are left out
Tier2AxisMatchBelowThreshold(als, user_profile, user_categories) ==
    LET hit == SelectIdx(als, {i \in 1..Len(als) :
                                 /\ als[i].v.categories \cap user_categories # {}
                                 /\ DistLess(EuclideanDistanceSq(user_profile, als[i].v.axes),
                                             DistOf(config.axis_distance_threshold))}, 1)
        candidates ==
            [i \in 1..Len(hit) |->
                [alignment |-> hit[i].v,
                 distance |-> EuclideanDistanceSq(user_profile, hit[i].v.axes),
                 match_type |-> "axis_distance"]]
    IN  StableSort(candidates,
                   [i \in 1..Len(hit), j \in 1..Len(hit) |->
                        DistLess(candidates[i].distance, candidates[j].distance)])

\* Alignment._tier2_axis_match over the dict `als`
Tier2AxisMatch(als, user_profile, user_categories) ==
    LET hit == SelectIdx(als, {i \in 1..Len(als) :
                                 als[i].v.categories \cap user_categories # {}}, 1)
        candidates ==
            [i \in 1..Len(hit) |->
                [alignment |-> hit[i].v,
                 distance |-> EuclideanDistanceSq(user_profile, hit[i].v.axes),
                 match_type |-> "axis_distance"]]
    IN  StableSort(candidates,
                   [i \in 1..Len(hit), j \in 1..Len(hit) |->
                        DistLess(candidates[i].distance, candidates[j].distance)])

\* faulty variant, for sensitivity: a best distance equal to the threshold is accepted
Tier2AcceptedInclusive(tier2_results, threshold) ==
    /\ tier2_results # <<>>
    /\ ~DistLess(DistOf(threshold), tier2_results[1].distance)

\* the acceptance test of Tier 2 in match:
\* tier2_results and tier2_results[0]["distance"] < self.axis_distance_threshold
Tier2Accepted(tier2_results, threshold) ==
    /\ tier2_results # <<>>
    /\ DistLess(tier2_results[1].distance, DistOf(threshold))

\* the first loop of _tier3_vector_fallback: the ids the catalog knows
RECURSIVE VectorResults(_, _)
VectorResults(als, alignment_ids) ==
    IF alignment_ids = <<>> THEN <<>>
    ELSE (IF DictHas(als, Head(alignment_ids))
          THEN << [alignment |-> DictGet(als, Head(alignment_ids)),
                   distance |-> DistOf(999),
                   match_type |-> "vector_similarity"] >>
          ELSE <<>>)
         \o VectorResults(als, Tail(alignment_ids))

\* the second loop of _tier3_vector_fallback from als[i] on; the break is
\* tested at the end of every iteration
RECURSIVE CategoryFallback(_, _, _, _, _)
CategoryFallback(als, user_categories, n_results, i, results) ==
    IF i > Len(als) THEN results
    ELSE LET r1 == IF als[i].v.categories \cap user_categories # {}
                   THEN Append(results, [alignment |-> als[i].v,
                                         distance |-> DistOf(999),
                                         match_type |-> "category_fallback"])
                   ELSE results
         IN  IF Len(r1) >= n_results THEN r1
             ELSE CategoryFallback(als, user_categories, n_results, i + 1, r1)

\* faulty variant, for sensitivity: the category fallback is never taken
Tier3ResultsWithoutFallback(als, alignment_ids, user_categories, n_results) ==
    Take(VectorResults(als, alignment_ids), n_results)

\* Alignment._tier3_vector_fallback after query_vector answered alignment_ids
Tier3Results(als, alignment_ids, user_categories, n_results) ==
    LET results == VectorResults(als, alignment_ids)
    IN  Take(IF results = <<>>
             THEN CategoryFallback(als, user_categories, n_results, 1, <<>>)
             ELSE results,
             n_results)

\* faulty variant, for sensitivity: the floor of 0.5 is not applied
AxisConfidenceUnclamped(dist) ==
    LET below(k) == 9 * (2 * k - 1) * (2 * k - 1) * dist.d <= 10000 * dist.n
        ks == {k \in 1..100 : below(k)}
    IN  IF ks = {} THEN 100 ELSE 100 - (CHOOSE k \in ks : \A j \in ks : j <= k)

\* round(100 * max(0.5, 1.0 - distance / 6.0)): the confidence in hundredths.
\* 100 - k is the nearest hundredth iff (2k-1)/2 <= 50*distance/3 < (2k+1)/2.
AxisConfidence(dist) ==
    LET below(k) == 9 * (2 * k - 1) * (2 * k - 1) * dist.d <= 10000 * dist.n
        ks == {k \in 1..50 : below(k)}
    IN  IF ks = {} THEN 100 ELSE 100 - (CHOOSE k \in ks : \A j \in ks : j <= k)

\* Alignment._format_results; confidence is in hundredths
FormatResults(raw_results, tier) ==
    [i \in 1..Len(raw_results) |->
        [id |-> raw_results[i].alignment.id,
         type |-> raw_results[i].alignment.type,
         title |-> raw_results[i].alignment.title,
         description |-> raw_results[i].alignment.description,
         match_tier |-> tier,
         confidence |-> IF tier = "exact" THEN 100
                        ELSE IF tier = "axis" THEN AxisConfidence(raw_results[i].distance)
                        ELSE 50,
         distance |-> raw_results[i].distance]]

----------------------------------------------------------------------------
(* Start-up and reload: AlignmentDataStore.__init__, reload_from_csv,      *)
(* _rebuild_vector_index, Alignment.__init__ and Alignment.reload_data,    *)
(* one step per statement that other threads can observe.                  *)

DefaultConfig == [axis_distance_threshold |-> 3, min_results |-> 3, max_results |-> 12]

\* what a reload is expected to leave alone when it fails
Snapshot ==
    [answers |-> answers, alignments |-> alignments, normalizer |-> normalizer,
     csv_path |-> csv_path, last_updated |-> last_updated]

IdleReload ==
    [pc |-> "idle", mode |-> "none", src |-> "none", columns |-> {},
     todo |-> <<>>, alignment_rows |-> <<>>, status |-> "none", failed_at |-> "none",
     pre |-> <<>>, n |-> 0, failures |-> 0]

\* an exception leaves reload_from_csv: __init__ re-raises it (no service),
\* reload_data lets it through to the caller
Raised(at) ==
    /\ r' = [r EXCEPT !.pc = "idle", !.status = "raised", !.failed_at = at,
                      !.todo = <<>>, !.alignment_rows = <<>>,
                      !.failures = r.failures + 1]
    /\ svc' = IF r.mode = "startup" THEN "failed" ELSE svc

\* Alignment.__init__ -> AlignmentDataStore.__init__ (lines 22-41): the
\* stores start empty; the CSV is loaded only when the file exists
StartUp ==
    /\ svc = "down" /\ r.pc = "idle" /\ r.status = "none"
    /\ csv_path' = DefaultPath
    /\ answers' = <<>> /\ alignments' = <<>> /\ last_updated' = 0
    /\ collection' = NoCollection
    /\ r' = [IdleReload EXCEPT !.mode = "startup", !.src = disk, !.pre = Snapshot,
                               !.pc = IF Source(disk).exists THEN "load" ELSE "normalizer"]
    /\ UNCHANGED <<svc, disk, normalizer, config, clock, m, p>>

\* upload_alignment_csv -> Alignment.reload_data -> reload_from_csv(None);
\* d is what the file holds when the reload runs
ReloadData(d) ==
    /\ svc = "up" /\ r.pc = "idle" /\ r.status = "none" /\ r.n < MaxReloads
    /\ disk' = d
    /\ r' = [IdleReload EXCEPT !.mode = "reload", !.src = d, !.pre = Snapshot,
                               !.pc = "load", !.n = r.n + 1,
                               !.failures = r.failures]
    /\ UNCHANGED <<svc, csv_path, answers, alignments, last_updated, collection,
                   normalizer, config, clock, m, p>>

\* reload_from_csv lines 56-77: exists(), _load_dataframe, the two filters
FrameLoads(src) ==
    /\ Source(src).exists /\ Source(src).parses
    /\ {"Is_Selectable", "Alignment_Type"} \subseteq Source(src).columns

LoadFrame ==
    /\ r.pc = "load" /\ FrameLoads(r.src)
    /\ r' = [r EXCEPT !.pc = "reset_answers", !.columns = Source(r.src).columns,
                      !.todo = AnswerRows(Source(r.src).rows),
                      !.alignment_rows = AlignmentRows(Source(r.src).rows)]
    /\ UNCHANGED <<svc, disk, csv_path, answers, alignments, last_updated, collection,
                   normalizer, config, clock, m, p>>

LoadFrameFails ==
    /\ r.pc = "load" /\ ~FrameLoads(r.src)
    /\ Raised("load")
    /\ UNCHANGED <<disk, csv_path, answers, alignments, last_updated, collection,
                   normalizer, config, clock, m, p>>

\* line 80: self.answers = {}
ResetAnswers ==
    /\ r.pc = "reset_answers"
    /\ answers' = <<>>
    /\ r' = [r EXCEPT !.pc = "answers"]
    /\ UNCHANGED <<svc, disk, csv_path, alignments, last_updated, collection,
                   normalizer, config, clock, m, p>>

\* lines 81-100: one row of answers_df
PutAnswer ==
    /\ r.pc = "answers" /\ r.todo # <<>> /\ "Answer_ID" \in r.columns
    /\ answers' = PutAnswerRow(answers, Head(r.todo))
    /\ r' = [r EXCEPT !.todo = Tail(r.todo)]
    /\ UNCHANGED <<svc, disk, csv_path, alignments, last_updated, collection,
                   normalizer, config, clock, m, p>>

\* line 82: row["Answer_ID"] raises KeyError
PutAnswerFails ==
    /\ r.pc = "answers" /\ r.todo # <<>> /\ "Answer_ID" \notin r.columns
    /\ Raised("answers")
    /\ UNCHANGED <<disk, csv_path, answers, alignments, last_updated, collection,
                   normalizer, config, clock, m, p>>

\* line 103: self.alignments = {}
ResetAlignments ==
    /\ r.pc = "answers" /\ r.todo = <<>>
    /\ alignments' = <<>>
    /\ r' = [r EXCEPT !.pc = "alignments", !.todo = r.alignment_rows,
                      !.alignment_rows = <<>>]
    /\ UNCHANGED <<svc, disk, csv_path, answers, last_updated, collection,
                   normalizer, config, clock, m, p>>

\* lines 104-133: one row of alignments_df
PutAlignment ==
    /\ r.pc = "alignments" /\ r.todo # <<>> /\ "Alignment_ID" \in r.columns
    /\ alignments' = PutAlignmentRow(alignments, Head(r.todo), answers)
    /\ r' = [r EXCEPT !.todo = Tail(r.todo)]
    /\ UNCHANGED <<svc, disk, csv_path, answers, last_updated, collection,
                   normalizer, config, clock, m, p>>

\* line 105: row["Alignment_ID"] raises KeyError
PutAlignmentFails ==
    /\ r.pc = "alignments" /\ r.todo # <<>> /\ "Alignment_ID" \notin r.columns
    /\ Raised("alignments")
    /\ UNCHANGED <<disk, csv_path, answers, alignments, last_updated, collection,
                   normalizer, config, clock, m, p>>

\* _rebuild_vector_index lines 185-188: delete_collection; self._collection
\* still refers to the collection that is gone
IndexDelete ==
    /\ r.pc = "alignments" /\ r.todo = <<>>
    /\ collection' = IF collection.handle = "none" THEN collection
                     ELSE [handle |-> "stale", ids |-> {}]
    /\ r' = [r EXCEPT !.pc = "index_create"]
    /\ UNCHANGED <<svc, disk, csv_path, answers, alignments, last_updated,
                   normalizer, config, clock, m, p>>

\* lines 192-199: create_collection; an empty catalog stops here
IndexCreate ==
    /\ r.pc = "index_create"
    /\ collection' = [handle |-> "live", ids |-> {}]
    /\ r' = [r EXCEPT !.pc = IF alignments = <<>> THEN "stamp" ELSE "index_add"]
    /\ UNCHANGED <<svc, disk, csv_path, answers, alignments, last_updated,
                   normalizer, config, clock, m, p>>

\* lines 201-232: the documents are embedded and added
IndexAdd ==
    /\ r.pc = "index_add"
    /\ collection' = [handle |-> "live", ids |-> DictKeys(alignments)]
    /\ r' = [r EXCEPT !.pc = "stamp"]
    /\ UNCHANGED <<svc, disk, csv_path, answers, alignments, last_updated,
                   normalizer, config, clock, m, p>>

\* create_collection or add raises (Chroma or the embedding function fails)
IndexFails ==
    /\ r.pc \in {"index_create", "index_add"}
    /\ Raised("index")
    /\ UNCHANGED <<disk, csv_path, answers, alignments, last_updated, collection,
                   normalizer, config, clock, m, p>>

\* line 140: self.last_updated = datetime.now(); the stats are returned
Stamp ==
    /\ r.pc = "stamp"
    /\ clock' = clock + 1
    /\ last_updated' = clock + 1
    /\ r' = [r EXCEPT !.pc = "normalizer"]
    /\ UNCHANGED <<svc, disk, csv_path, answers, alignments, collection,
                   normalizer, config, m, p>>

\* faulty variant, for sensitivity: reload_data keeps the normalizer it has
BuildNormalizerOnlyAtStartUp ==
    /\ r.pc = "normalizer"
    /\ normalizer' = IF r.mode = "startup" THEN NewNormalizer(answers) ELSE normalizer
    /\ config' = IF r.mode = "startup" THEN DefaultConfig ELSE config
    /\ svc' = "up"
    /\ r' = [r EXCEPT !.pc = "idle", !.status = "ok"]
    /\ UNCHANGED <<disk, csv_path, answers, alignments, last_updated, collection,
                   clock, m, p>>

\* Alignment.__init__ lines 43-56 and Alignment.reload_data line 359:
\* self.normalizer = AnswerNormalizer(self.data_store.answers)
BuildNormalizer ==
    /\ r.pc = "normalizer"
    /\ normalizer' = NewNormalizer(answers)
    /\ config' = IF r.mode = "startup" THEN DefaultConfig ELSE config
    /\ svc' = "up"
    /\ r' = [r EXCEPT !.pc = "idle", !.status = "ok"]
    /\ UNCHANGED <<disk, csv_path, answers, alignments, last_updated, collection,
                   clock, m, p>>

\* Alignment() or reload_data has returned or raised: its caller
\* (get_alignment_service, upload_alignment_csv) has the outcome and the
\* call is over
ReloadReturns ==
    /\ r.pc = "idle" /\ r.status # "none"
    /\ r' = [IdleReload EXCEPT !.n = r.n, !.failures = r.failures]
    /\ UNCHANGED <<svc, disk, csv_path, answers, alignments, last_updated, collection,
                   normalizer, config, clock, m, p>>

----------------------------------------------------------------------------
(* Requests.                                                               *)

RawTexts == {Red, blue, FlowText, zz}

\* one question carrying every text as a flat answer
FlatQuiz(texts) == << [answers |-> texts, sub_questions |-> <<>>] >>

\* one question whose first text is its flat answer and whose other texts
\* answer a sub-question
NestedQuiz(texts) ==
    << [answers |-> <<Head(texts)>>,
        sub_questions |-> << [sub_answers |-> Tail(texts)] >>] >>

Submissions == {FlatQuiz(t) : t \in SeqsUpTo(RawTexts, MaxAnswers)}

\* the submissions of the specification with threads
FewSubmissions ==
    {FlatQuiz(<<Red>>), FlatQuiz(<<FlowText>>), NestedQuiz(<<blue, Red>>), FlatQuiz(<<zz>>)}

\* the explicit max_results arguments of match; a call without one (None)
\* takes self.max_results
MaxResultsArgs == 0..MaxResultsArg

----------------------------------------------------------------------------
(* Alignment.match, one step per tier; the shared structures a step reads  *)
(* are read at that step.                                                  *)

IdleMatch ==
    [pc |-> "idle", request |-> <<>>, max_results |-> 0,
     normalized_answers |-> <<>>, user_profile |-> IntProfile(ZeroAxes),
     user_answer_ids |-> {}, user_categories |-> {},
     tier1_results |-> <<>>, tier2_results |-> <<>>,
     alignment_ids |-> <<>>, tier3_results |-> <<>>,
     response |-> <<>>, error |-> None,
     consulted |-> <<>>, view |-> <<>>,
     seen |-> [normalizer |-> <<>>, alignments |-> <<>>, collection |-> <<>>]]

\* faulty variant, for sensitivity: an empty normalization goes on to the tiers
ShortCircuitsNever(normalized_answers) == FALSE

\* faulty variant, for sensitivity: Tier 1 answers only when it has min_results results
Tier1ReturnsOnlyWithMinResults(tier1_results) ==
    Len(tier1_results) >= config.min_results

\* line 92: if not normalized_answers: return []
ShortCircuits(normalized_answers) == normalized_answers = <<>>

\* line 106: if tier1_results:
Tier1Returns(tier1_results) == tier1_results # <<>>

\* lines 69-98: the request is normalized and the user's profile computed
MatchNormalize(request, given, arg) ==
    /\ svc = "up" /\ m.pc = "idle"
    /\ LET max_results == IF given THEN arg ELSE config.max_results
           normalized == NormalizeQuizAnswers(normalizer, request)
           seen == [IdleMatch.seen EXCEPT !.normalizer = <<normalizer>>]
       IN  IF ShortCircuits(normalized)
           THEN m' = [IdleMatch EXCEPT !.pc = "returned", !.request = request,
                                       !.max_results = max_results, !.seen = seen,
                                       !.response = <<>>]
           ELSE m' = [IdleMatch EXCEPT
                        !.pc = "normalized", !.request = request,
                        !.max_results = max_results, !.seen = seen,
                        !.normalized_answers = normalized,
                        !.user_profile = CalculateUserProfile(normalized),
                        !.user_answer_ids = {normalized[i].answer_id :
                                                i \in 1..Len(normalized)},
                        !.user_categories = {normalized[i].category :
                                                i \in 1..Len(normalized)}]
    /\ UNCHANGED <<svc, disk, csv_path, answers, alignments, last_updated, collection,
                   normalizer, config, clock, r, p>>

\* lines 100-107
MatchTier1 ==
    /\ m.pc = "normalized"
    /\ LET tier1_results ==
               Tier1ExactMatch(alignments, m.user_answer_ids, m.normalized_answers)
           m1 == [m EXCEPT !.tier1_results = tier1_results,
                           !.consulted = Append(m.consulted, 1),
                           !.view = alignments,
                           !.seen.alignments = Append(m.seen.alignments, alignments)]
       IN  IF Tier1Returns(tier1_results)
           THEN m' = [m1 EXCEPT !.pc = "returned",
                                !.response = FormatResults(
                                    Take(tier1_results, m.max_results), "exact")]
           ELSE m' = [m1 EXCEPT !.pc = "tier1_done"]
    /\ UNCHANGED <<svc, disk, csv_path, answers, alignments, last_updated, collection,
                   normalizer, config, clock, r, p>>

\* lines 109-116
MatchTier2 ==
    /\ m.pc = "tier1_done"
    /\ LET tier2_results ==
               Tier2AxisMatch(alignments, m.user_profile, m.user_categories)
           m1 == [m EXCEPT !.tier2_results = tier2_results,
                           !.consulted = Append(m.consulted, 2),
                           !.view = alignments,
                           !.seen.alignments = Append(m.seen.alignments, alignments)]
       IN  IF Tier2Accepted(tier2_results, config.axis_distance_threshold)
           THEN m' = [m1 EXCEPT !.pc = "returned",
                                !.response = FormatResults(
                                    Take(tier2_results, m.max_results), "axis")]
           ELSE m' = [m1 EXCEPT !.pc = "tier2_done"]
    /\ UNCHANGED <<svc, disk, csv_path, answers, alignments, last_updated, collection,
                   normalizer, config, clock, r, p>>

\* what the neighbor index can answer to a query for n ids: a ranked list of
\* at most n of the ids it holds
QueryAnswers(ids, n) ==
    {q \in SeqsUpTo(ids, Min2(MaxQueryIds, IF n > 0 THEN n ELSE 0)) :
        \A i, j \in 1..Len(q) : i # j => q[i] # q[j]}

\* faulty variant, for sensitivity: the query drops the collection it read
MatchQueryDropsIndex ==
    /\ m.pc = "tier2_done"
    /\ collection.handle \in {"none", "live"}
    /\ \E q \in QueryAnswers(collection.ids, 2 * m.max_results) :
          m' = [m EXCEPT !.pc = "queried", !.alignment_ids = q,
                         !.consulted = Append(m.consulted, 3),
                         !.seen.collection = <<collection.ids>>]
    /\ collection' = [handle |-> "stale", ids |-> {}]
    /\ UNCHANGED <<svc, disk, csv_path, answers, alignments, last_updated,
                   normalizer, config, clock, r, p>>

\* _tier3_vector_fallback lines 216-223 -> query_vector: no collection
\* answers [], otherwise the collection is queried for 2 * n_results ids
MatchQuery ==
    /\ m.pc = "tier2_done"
    /\ collection.handle \in {"none", "live"}
    /\ \E q \in QueryAnswers(collection.ids, 2 * m.max_results) :
          m' = [m EXCEPT !.pc = "queried", !.alignment_ids = q,
                         !.consulted = Append(m.consulted, 3),
                         !.seen.collection = <<collection.ids>>]
    /\ UNCHANGED <<svc, disk, csv_path, answers, alignments, last_updated, collection,
                   normalizer, config, clock, r, p>>

\* self._collection.query raises: the embedding or the index fails or times
\* out ("QueryError"), or the collection was deleted by a rebuild
\* ("StaleCollection"); nothing in match or query_vector catches it
MatchQueryRaises ==
    /\ m.pc = "tier2_done"
    /\ collection.handle \in {"live", "stale"}
    /\ m' = [m EXCEPT !.pc = "raised",
                      !.consulted = Append(m.consulted, 3),
                      !.error = IF collection.handle = "stale"
                                THEN "StaleCollection" ELSE "QueryError"]
    /\ UNCHANGED <<svc, disk, csv_path, answers, alignments, last_updated, collection,
                   normalizer, config, clock, r, p>>

\* _tier3_vector_fallback lines 225-249 and match line 125
MatchTier3 ==
    /\ m.pc = "queried"
    /\ LET tier3_results ==
               Tier3Results(alignments, m.alignment_ids, m.user_categories,
                            m.max_results)
       IN  m' = [m EXCEPT !.pc = "returned",
                          !.tier3_results = tier3_results,
                          !.view = alignments,
                          !.seen.alignments = Append(m.seen.alignments, alignments),
                          !.response = FormatResults(
                              Take(tier3_results, m.max_results), "vector")]
    /\ UNCHANGED <<svc, disk, csv_path, answers, alignments, last_updated, collection,
                   normalizer, config, clock, r, p>>

\* A loop over self.data_store.alignments.items() (lines 144, 185, 238)
\* overlaps an insertion of the reload thread: RuntimeError, dictionary
\* changed size during iteration.
MatchRaceError ==
    /\ m.pc \in {"normalized", "tier1_done", "queried"}
    /\ r.pc = "alignments" /\ r.todo # <<>> /\ "Alignment_ID" \in r.columns
    /\ m' = [m EXCEPT !.pc = "raised", !.error = "RuntimeError",
                      !.consulted = Append(m.consulted,
                                           CASE m.pc = "normalized" -> 1
                                             [] m.pc = "tier1_done" -> 2
                                             [] OTHER -> 3)]
    /\ UNCHANGED <<svc, disk, csv_path, answers, alignments, last_updated, collection,
                   normalizer, config, clock, r, p>>

\* the caller has the response or the exception; the locals are gone
MatchEnds ==
    /\ m.pc \in {"returned", "raised"}
    /\ m' = IdleMatch
    /\ UNCHANGED <<svc, disk, csv_path, answers, alignments, last_updated, collection,
                   normalizer, config, clock, r, p>>

----------------------------------------------------------------------------
(* The service.                                                            *)

NoHarness == [pc |-> "off"]

Init ==
    /\ svc = "down"
    /\ disk \in SourceNames
    /\ csv_path = DefaultPath
    /\ answers = <<>> /\ alignments = <<>> /\ last_updated = 0
    /\ collection = NoCollection
    /\ normalizer = NewNormalizer(<<>>)
    /\ config = DefaultConfig
    /\ clock = 0
    /\ r = IdleReload
    /\ m = IdleMatch
    /\ p = NoHarness

\* Requests served one at a time: upload_alignment_csv is a coroutine that
\* runs reload_data without awaiting, so on one event loop no match runs
\* while a reload is in progress: a match starts once the call has returned.
Next ==
    \/ StartUp
    \/ \E d \in SourceNames : m.pc = "idle" /\ ReloadData(d)
    \/ LoadFrame
    \/ LoadFrameFails
    \/ ResetAnswers
    \/ PutAnswer
    \/ PutAnswerFails
    \/ ResetAlignments
    \/ PutAlignment
    \/ PutAlignmentFails
    \/ IndexDelete
    \/ IndexCreate
    \/ IndexAdd
    \/ IndexFails
    \/ Stamp
    \/ BuildNormalizer
    \/ ReloadReturns
    \/ /\ r.pc = "idle" /\ r.status = "none" /\ m.pc = "idle" /\ svc = "up"
       /\ \E request \in Submissions, given \in BOOLEAN, arg \in MaxResultsArgs :
             MatchNormalize(request, given, arg)
    \/ MatchTier1
    \/ MatchTier2
    \/ MatchQuery
    \/ MatchQueryRaises
    \/ MatchTier3
    \/ MatchEnds

Spec == Init /\ [][Next]_vars

\* Requests served by threads (section 5 of the specification: the catalog is
\* read concurrently by many request-handling threads): the steps of one
\* match and of one reload interleave freely.
NextThreads ==
    \/ StartUp
    \/ \E d \in SourceNames : ReloadData(d)
    \/ LoadFrame
    \/ LoadFrameFails
    \/ ResetAnswers
    \/ PutAnswer
    \/ PutAnswerFails
    \/ ResetAlignments
    \/ PutAlignment
    \/ PutAlignmentFails
    \/ IndexDelete
    \/ IndexCreate
    \/ IndexAdd
    \/ IndexFails
    \/ Stamp
    \/ BuildNormalizer
    \/ ReloadReturns
    \/ /\ m.pc = "idle" /\ svc = "up"
       /\ \E request \in FewSubmissions : MatchNormalize(request, FALSE, 0)
    \/ MatchTier1
    \/ MatchTier2
    \/ MatchQuery
    \/ MatchQueryRaises
    \/ MatchTier3
    \/ MatchRaceError
    \/ MatchEnds

SpecThreads == Init /\ [][NextThreads]_vars

----------------------------------------------------------------------------
(* Properties of Alignment.match (specification Spec).                     *)

\* the match_tier values of a response
Tags(response) == {response[i].match_tier : i \in 1..Len(response)}

\* the alignment ids of a list of raw results / of a response
RawIds(raw_results) == [i \in 1..Len(raw_results) |-> raw_results[i].alignment.id]
ResponseIds(response) == [i \in 1..Len(response) |-> response[i].id]

\* C1: a request that normalizes to at least one answer consults the tiers in
\* the order 1, 2, 3 and answers with the results of exactly one tier: those
\* of Tier 1, all tagged "exact", whenever Tier 1 found an alignment (Tier 2
\* and Tier 3 not consulted, nothing added up to min_results); else those of
\* Tier 2, all tagged "axis", when Tier 2 is accepted; else those of Tier 3.
\* No response mixes two tiers.
C1_OneTierInOrder ==
    (m.pc = "returned" /\ m.normalized_answers # <<>>) =>
        /\ Cardinality(Tags(m.response)) <= 1
        /\ \/ /\ m.tier1_results # <<>>
              /\ m.consulted = <<1>>
              /\ Tags(m.response) \subseteq {"exact"}
              /\ ResponseIds(m.response) = RawIds(Take(m.tier1_results, m.max_results))
           \/ /\ m.tier1_results = <<>>
              /\ m.tier2_results # <<>>
              /\ DistLess(m.tier2_results[1].distance, DistOf(3))
              /\ m.consulted = <<1, 2>>
              /\ Tags(m.response) \subseteq {"axis"}
              /\ ResponseIds(m.response) = RawIds(Take(m.tier2_results, m.max_results))
           \/ /\ m.tier1_results = <<>>
              /\ \/ m.tier2_results = <<>>
                 \/ ~DistLess(m.tier2_results[1].distance, DistOf(3))
              /\ m.consulted = <<1, 2, 3>>
              /\ Tags(m.response) \cap {"exact", "axis"} = {}
              /\ ResponseIds(m.response) = RawIds(Take(m.tier3_results, m.max_results))

\* Tier 1 answered with fewer results than min_results and nothing was added
C1_Witness ==
    /\ m.pc = "returned"
    /\ m.tier1_results # <<>>
    /\ Len(m.response) = Len(m.tier1_results)
    /\ Len(m.response) < config.min_results

\* C2: the components of every alignment Tier 1 returns are all among the
\* user's normalized answer ids.
C2_Tier1Subset ==
    \A i \in 1..Len(m.tier1_results) :
        Range(m.tier1_results[i].alignment.components) \subseteq
            {m.normalized_answers[j].answer_id : j \in 1..Len(m.normalized_answers)}

\* Tier 1 returned an alignment of two components and left another out
C2_Witness ==
    /\ m.consulted = <<1>>
    /\ \E i \in 1..Len(m.tier1_results) :
          Len(m.tier1_results[i].alignment.components) = 2
    /\ Len(m.tier1_results) < Len(m.view)

\* the smallest distance among the alignments of the catalog Tier 2 read that
\* share a category with the user is below the threshold 3.0
BestOverlapBelow3 ==
    \E i \in 1..Len(m.view) :
        /\ m.view[i].v.categories \cap m.user_categories # {}
        /\ DistLess(EuclideanDistanceSq(m.user_profile, m.view[i].v.axes), DistOf(3))

\* C4: a response is tagged "axis" only when Tier 1 found nothing and the
\* smallest distance among the category-overlapping alignments is strictly
\* below 3.0; when it is 3.0 or more, or no alignment shares a category, the
\* engine goes on to Tier 3.
C4_AxisOnlyBelowThreshold ==
    /\ (m.pc = "returned" /\ "axis" \in Tags(m.response)) =>
           (m.tier1_results = <<>> /\ m.consulted = <<1, 2>> /\ BestOverlapBelow3)
    /\ (m.consulted = <<1, 2>> /\ ~BestOverlapBelow3) => m.pc = "tier2_done"
    /\ (m.pc = "tier2_done") => ~BestOverlapBelow3

\* Tier 2 had a candidate at distance exactly 3.0 and the engine went on
C4_Witness ==
    /\ m.pc = "tier2_done"
    /\ m.tier2_results # <<>>
    /\ m.tier2_results[1].distance.n = 9 * m.tier2_results[1].distance.d

\* C9: when no submitted text normalizes (an empty submission included) match
\* returns [] without raising and without running a tier or the query.
C9_EmptyShortCircuit ==
    (m.pc # "idle" /\ m.normalized_answers = <<>>) =>
        /\ m.pc = "returned"
        /\ m.response = <<>>
        /\ m.consulted = <<>>
        /\ m.seen.alignments = <<>> /\ m.seen.collection = <<>>

\* a submission of texts none of which normalizes was answered
C9_Witness ==
    /\ m.pc = "returned"
    /\ m.request # <<>> /\ m.request[1].answers # <<>>
    /\ m.normalized_answers = <<>>
    /\ alignments # <<>>

----------------------------------------------------------------------------
(* Alignment._is_subsequence and the order test of Tier 1 on every         *)
(* component list and user sequence (specification SpecSubsequence).       *)

SeqIds == {"A", "B", "X"}

\* the normalized answers of a user who selected the ids of user_sequence in
\* this order
NormalizedOf(user_sequence) ==
    [i \in 1..Len(user_sequence) |->
        [answer_id |-> user_sequence[i], selection_order |-> i - 1,
         question_order |-> i - 1, axes |-> ZeroAxes, category |-> "c",
         text |-> <<>>]]

\* the catalog of the single alignment row with these components
OneAlignment(components) ==
    PutAlignmentRow(<<>>, AlignmentRow("ALIGNMENT", "SYNERGY", "name", components), <<>>)

InitSubsequence ==
    /\ svc = "down" /\ disk = "A" /\ csv_path = DefaultPath
    /\ answers = <<>> /\ alignments = <<>> /\ last_updated = 0
    /\ collection = NoCollection
    /\ normalizer = NewNormalizer(<<>>)
    /\ config = DefaultConfig
    /\ clock = 0
    /\ r = IdleReload
    /\ m = IdleMatch
    /\ \E components \in SeqsUpTo(SeqIds, MaxSeqLen),
          user_sequence \in SeqsUpTo(SeqIds, MaxSeqLen) :
          p = [pc |-> "in", components |-> components,
               user_sequence |-> user_sequence, greedy |-> FALSE, tier1 |-> <<>>]

ApplyIsSubsequence ==
    /\ p.pc = "in"
    /\ p' = [p EXCEPT
               !.pc = "out",
               !.greedy = IsSubsequence(p.components, p.user_sequence),
               !.tier1 = RawIds(Tier1ExactMatch(OneAlignment(p.components),
                                                Range(p.user_sequence),
                                                NormalizedOf(p.user_sequence)))]
    /\ UNCHANGED <<svc, disk, csv_path, answers, alignments, last_updated, collection,
                   normalizer, config, clock, r, m>>

SpecSubsequence == InitSubsequence /\ [][ApplyIsSubsequence]_vars

\* there is a strictly increasing assignment of positions of user_sequence to
\* the components
ExistsIncreasing(components, user_sequence) ==
    \E f \in [1..Len(components) -> 1..Len(user_sequence)] :
        /\ \A i, j \in 1..Len(components) : i < j => f[i] < f[j]
        /\ \A i \in 1..Len(components) : user_sequence[f[i]] = components[i]

\* C3: Tier 1 returns an order-sensitive alignment iff its components are a
\* (not necessarily contiguous) subsequence of the user's answers in
\* selection order, and the greedy single pass of _is_subsequence decides
\* exactly that, repeated ids included; [A, B] matches [A, B] and [A, X, B]
\* and matches neither [B, A] nor [A].
C3_GreedyIsSubsequence ==
    p.pc = "out" =>
        /\ p.greedy <=> ExistsIncreasing(p.components, p.user_sequence)
        /\ p.tier1 # <<>> <=> ExistsIncreasing(p.components, p.user_sequence)
        /\ p.components = <<"A", "B">> =>
              /\ p.user_sequence \in {<<"A", "B">>, <<"A", "X", "B">>} => p.tier1 # <<>>
              /\ p.user_sequence \in {<<"B", "A">>, <<"A">>} => p.tier1 = <<>>

\* [A, B] was found in [A, X, B]
C3_Witness ==
    /\ p.pc = "out"
    /\ p.components = <<"A", "B">> /\ p.user_sequence = <<"A", "X", "B">>
    /\ p.greedy /\ p.tier1 = <<"ALIGNMENT">>

----------------------------------------------------------------------------
(* Alignment._tier3_vector_fallback on every answer of the neighbor query  *)
(* (specification SpecTier3).                                              *)

\* an id no catalog holds
Ghost == <<"GHOST">>

\* the ids the neighbor query can answer: those of the catalogs and Ghost
NeighborIds == {"SOLO_RED", "SOLO_BLUE", "HARMONY_RED_FLOW", "GHOST"}

UserCategorySets == SUBSET {"color", "nav", "mood"}

InitTier3 ==
    /\ svc = "down" /\ disk \in {"A", "B", "missing"} /\ csv_path = DefaultPath
    /\ answers = CatalogAnswers(disk)
    /\ alignments = CatalogAlignments(disk)
    /\ last_updated = 0
    /\ collection = NoCollection
    /\ normalizer = NewNormalizer(<<>>)
    /\ config = DefaultConfig
    /\ clock = 0
    /\ r = IdleReload
    /\ m = IdleMatch
    /\ \E alignment_ids \in SeqsUpTo(NeighborIds, MaxQueryIds),
          user_categories \in UserCategorySets,
          n_results \in 1..(MaxResultsArg + 1) :
          p = [pc |-> "in", alignment_ids |-> alignment_ids,
               user_categories |-> user_categories, n_results |-> n_results,
               results |-> <<>>]

ApplyTier3 ==
    /\ p.pc = "in"
    /\ p' = [p EXCEPT
               !.pc = "out",
               !.results = Tier3Results(alignments, p.alignment_ids,
                                        p.user_categories, p.n_results)]
    /\ UNCHANGED <<svc, disk, csv_path, answers, alignments, last_updated, collection,
                   normalizer, config, clock, r, m>>

SpecTier3 == InitTier3 /\ [][ApplyTier3]_vars

\* an alignment of the catalog shares a category with the user
CatalogOverlaps ==
    \E i \in 1..Len(alignments) :
        alignments[i].v.categories \cap p.user_categories # {}

\* the neighbor query answered no id of the catalog
NoUsableId ==
    \A i \in 1..Len(p.alignment_ids) : ~DictHas(alignments, p.alignment_ids[i])

\* C10: with an alignment that shares a category with the user in the
\* catalog, Tier 3 returns at least one result whatever the query answered
\* (nothing, unknown ids, known ids) for every n_results >= 1; it returns
\* nothing only when the query gave no id of the catalog and no alignment
\* shares a category.
C10_Tier3Complete ==
    (p.pc = "out" /\ p.n_results >= 1) =>
        /\ CatalogOverlaps => p.results # <<>>
        /\ p.results = <<>> => (NoUsableId /\ ~CatalogOverlaps)
        /\ Len(p.results) <= p.n_results

\* the query answered only an id the catalog does not know, and the category
\* fallback produced the results
C10_Witness ==
    /\ p.pc = "out"
    /\ p.alignment_ids = Ghost
    /\ CatalogOverlaps
    /\ p.results # <<>>
    /\ \A i \in 1..Len(p.results) : p.results[i].match_type = "category_fallback"

----------------------------------------------------------------------------
(* Reload and failures.                                                    *)

\* the sources a start-up or a reload can complete with
Versions == {"missing", "A", "B"}

\* C5: a match that runs while the catalog is reloaded reads answers,
\* alignments, lookup table and Tier-3 index of one and the same catalog
\* version, and never fails because they are rebuilt underneath it (stated
\* for runs in which no load has failed).
C5_OneCatalogVersion ==
    (m.pc # "idle" /\ r.failures = 0) =>
        /\ m.error \notin {"RuntimeError", "StaleCollection"}
        /\ \E c \in Versions :
              /\ \A i \in 1..Len(m.seen.normalizer) :
                    m.seen.normalizer[i] = NewNormalizer(CatalogAnswers(c))
              /\ \A i \in 1..Len(m.seen.alignments) :
                    m.seen.alignments[i] = CatalogAlignments(c)
              /\ \A i \in 1..Len(m.seen.collection) :
                    m.seen.collection[i] = DictKeys(CatalogAlignments(c))

\* C6: a reload that fails leaves answers, alignments, normalizer, csv_path
\* and last_updated as they were when it started.
C6_FailedReloadChangesNothing ==
    (r.mode = "reload" /\ r.pc = "idle" /\ r.status = "raised") => Snapshot = r.pre

\* C7: a load whose source is missing or malformed fails and the failure
\* reaches the caller; none completes with an empty catalog in service.
C7_LoadFailurePropagates ==
    (r.pc = "idle" /\ r.status # "none" /\ ~FrameLoads(r.src)) =>
        /\ r.status = "raised"
        /\ ~(svc = "up" /\ answers = <<>> /\ alignments = <<>> /\ r.mode = "startup")

\* C8: a failure of the Tier-3 neighbor query does not leave match; the
\* request is answered from the category fallback.
C8_QueryFailureDegrades ==
    ~(m.pc = "raised" /\ m.error = "QueryError")

----------------------------------------------------------------------------
(* Size, confidence and order of the responses (specification Spec).       *)

\* C11: whatever the catalog, the submission and max_results >= 0, the
\* response of match has at most max_results records whichever tier made it
\* (12 when no max_results is given), and _tier3_vector_fallback returns at
\* most n_results results although it asks the index for 2 * n_results ids.
C11_AtMostMaxResults ==
    m.pc # "idle" =>
        /\ m.max_results \in MaxResultsArgs \cup {12}
        /\ Len(m.response) <= m.max_results
        /\ Len(m.tier3_results) <= m.max_results

\* the index answered more known ids than max_results and Tier 3 cut the list
C11_Witness ==
    /\ m.pc = "returned" /\ m.consulted = <<1, 2, 3>>
    /\ m.max_results >= 1
    /\ Len(VectorResults(m.view, m.alignment_ids)) > m.max_results
    /\ Len(m.tier3_results) = m.max_results
    /\ Len(m.response) = m.max_results

\* the raw results the response of a returned match was formatted from
RawOfResponse ==
    Take(CASE m.consulted = <<1>> -> m.tier1_results
           [] m.consulted = <<1, 2>> -> m.tier2_results
           [] OTHER -> m.tier3_results,
         m.max_results)

\* c hundredths is exactly max(0.5, 1.0 - distance / 6.0)
IsExactAxisConfidence(c, dist) ==
    IF dist.n >= 9 * dist.d THEN c = 50
    ELSE c \in 50..100 /\ 10000 * dist.n = 36 * (100 - c) * (100 - c) * dist.d

\* c hundredths is max(0.5, 1.0 - distance / 6.0) rounded to two decimals:
\* the hundredth nearest to it
IsRoundedAxisConfidence(c, dist) ==
    IF dist.n >= 9 * dist.d THEN c = 50
    ELSE LET k == 100 - c
         IN  /\ c \in 50..100
             /\ k = 0 \/ (6 * k - 3) * (6 * k - 3) * dist.d <= 10000 * dist.n
             /\ 10000 * dist.n <= (6 * k + 3) * (6 * k + 3) * dist.d

\* the user profile is the axis profile of the alignment
SameProfile(profile, axes) ==
    \A a \in AxisNames : profile.num[a] * axes.den = axes.num[a] * profile.den

\* C12 as stated: the confidence of a record is 1.0 for "exact",
\* max(0.5, 1.0 - distance/6.0) for "axis" and 0.5 for Tier 3.
C12_UnroundedConfidence ==
    m.pc = "returned" =>
        \A i \in 1..Len(m.response) :
            CASE m.response[i].match_tier = "exact" -> m.response[i].confidence = 100
              [] m.response[i].match_tier = "axis" ->
                    IsExactAxisConfidence(m.response[i].confidence,
                                          RawOfResponse[i].distance)
              [] OTHER -> m.response[i].confidence = 50

\* C12 amended: the confidence of a record depends on its tier and on the
\* distance of its raw result only: 1.0 for "exact", max(0.5, 1.0 -
\* distance/6.0) rounded to two decimals for "axis" (1.0 at distance 0, 0.5
\* from distance 3.0 on), 0.5 for Tier 3; it lies in [0.5, 1.0]; a Tier-2
\* record of an alignment whose axes are the user profile has distance 0
\* and confidence 1.0.
C12_RoundedConfidence ==
    m.pc = "returned" =>
        \A i \in 1..Len(m.response) :
            /\ m.response[i].confidence \in 50..100
            /\ CASE m.response[i].match_tier = "exact" -> m.response[i].confidence = 100
                 [] m.response[i].match_tier = "axis" ->
                       /\ IsRoundedAxisConfidence(m.response[i].confidence,
                                                  RawOfResponse[i].distance)
                       /\ RawOfResponse[i].distance.n = 0 =>
                              m.response[i].confidence = 100
                       /\ SameProfile(m.user_profile, RawOfResponse[i].alignment.axes) =>
                              /\ RawOfResponse[i].distance.n = 0
                              /\ m.response[i].confidence = 100
                 [] OTHER -> m.response[i].confidence = 50

\* an "axis" response with a record whose confidence had to be rounded and a
\* record beyond distance 3.0 held at 0.5
C12_Witness ==
    /\ m.pc = "returned" /\ m.consulted = <<1, 2>>
    /\ \E i \in 1..Len(m.response) :
          ~IsExactAxisConfidence(m.response[i].confidence, RawOfResponse[i].distance)
    /\ \E i \in 1..Len(m.response) :
          /\ RawOfResponse[i].distance.n > 9 * RawOfResponse[i].distance.d
          /\ m.response[i].confidence = 50

\* the categories of the user's normalized answers
CategoriesOfUser == {m.normalized_answers[j].category : j \in 1..Len(m.normalized_answers)}

\* C13: every alignment of a Tier-2 result list shares a category with the
\* user's normalized answers; one without a common category is never among
\* them, however close its axes are.
C13_Tier2SharesCategory ==
    \A i \in 1..Len(m.tier2_results) :
        m.tier2_results[i].alignment.categories \cap CategoriesOfUser # {}

\* Tier 2 left out an alignment of the catalog closer than 3.0 to the user
\* that has no category in common
C13_Witness ==
    /\ m.pc = "tier2_done"
    /\ \E i \in 1..Len(m.view) :
          /\ m.view[i].v.categories # {}
          /\ m.view[i].v.categories \cap CategoriesOfUser = {}
          /\ DistLess(EuclideanDistanceSq(m.user_profile, m.view[i].v.axes), DistOf(3))
          /\ \A j \in 1..Len(m.tier2_results) :
                m.tier2_results[j].alignment.id # m.view[i].v.id

\* the position of the alignment `id` in the iteration order of the catalog
\* the tier read
CatalogIndex(id) == CHOOSE k \in 1..Len(m.view) : m.view[k].k = id

\* C14: the records of an "axis" response are in ascending order of
\* distance, alignments at the same distance in catalog order, and so the
\* confidences never increase along the list.
C14_AxisAscending ==
    (m.pc = "returned" /\ m.consulted = <<1, 2>>) =>
        \A i, j \in 1..Len(m.response) :
            i < j =>
                /\ m.response[i].match_tier = "axis"
                /\ ~DistLess(m.response[j].distance, m.response[i].distance)
                /\ m.response[i].confidence >= m.response[j].confidence
                /\ ~DistLess(m.response[i].distance, m.response[j].distance) =>
                       CatalogIndex(m.response[i].id) < CatalogIndex(m.response[j].id)

\* an "axis" response that is not in catalog order and holds two alignments
\* at the same distance
C14_Witness ==
    /\ m.pc = "returned" /\ m.consulted = <<1, 2>>
    /\ \E i, j \in 1..Len(m.response) :
          i < j /\ CatalogIndex(m.response[i].id) > CatalogIndex(m.response[j].id)
    /\ \E i, j \in 1..Len(m.response) :
          /\ i < j
          /\ ~DistLess(m.response[i].distance, m.response[j].distance)
          /\ ~DistLess(m.response[j].distance, m.response[i].distance)

\* the number of components of the i-th Tier-1 result
Specificity(i) == Len(m.tier1_results[i].alignment.components)

\* C15: the records of an "exact" response are in descending order of
\* component count, alignments with as many components in catalog order, and
\* the cut to max_results keeps the most specific ones.
C15_ExactMostSpecificFirst ==
    (m.pc = "returned" /\ m.consulted = <<1>>) =>
        /\ \A i, j \in 1..Len(m.tier1_results) :
              i < j =>
                  /\ Specificity(i) >= Specificity(j)
                  /\ Specificity(i) = Specificity(j) =>
                         CatalogIndex(m.tier1_results[i].alignment.id)
                             < CatalogIndex(m.tier1_results[j].alignment.id)
        /\ Len(m.response) = Min2(m.max_results, Len(m.tier1_results))
        /\ \A i \in 1..Len(m.response) :
              /\ m.response[i].match_tier = "exact"
              /\ m.response[i].id = m.tier1_results[i].alignment.id
              /\ \A k \in (Len(m.response) + 1)..Len(m.tier1_results) :
                    Specificity(i) >= Specificity(k)

\* Tier 1 found the first alignment of the catalog, of one component, and
\* two alignments of two components; the cut kept the first of these only
C15_Witness ==
    /\ m.pc = "returned" /\ m.consulted = <<1>>
    /\ Len(m.response) = 1 /\ Len(m.tier1_results) = 3
    /\ Specificity(1) = 2 /\ Specificity(2) = 2 /\ Specificity(3) = 1
    /\ CatalogIndex(m.tier1_results[3].alignment.id) = 1

\* C16: an alignment that is not order-sensitive (POLARITY, components
\* [COLOR_RED, COLOR_BLUE]) is returned by Tier 1 whenever all its
\* components are among the user's answer ids, in whatever order the user
\* selected them.
C16_PolarityIgnoresOrder ==
    (m.pc \in {"tier1_done", "tier2_done", "queried", "returned"} /\ m.consulted # <<>>) =>
        \A i \in 1..Len(m.view) :
            (/\ m.view[i].v.type = "POLARITY"
             /\ Range(m.view[i].v.components) \subseteq
                    {m.normalized_answers[j].answer_id : j \in 1..Len(m.normalized_answers)})
            => \E k \in 1..Len(m.tier1_results) :
                   m.tier1_results[k].alignment.id = m.view[i].v.id

----------------------------------------------------------------------------
(* AnswerNormalizer.normalize_answer on every small catalog and text       *)
(* (specification SpecNormalizeAnswer).                                    *)

MaxCatalogAnswers == 2     \* answers in a catalog fed to the normalizer

red == <<"r", "e", "d">>
Bang == <<"!">>
zzzz == <<"z", "z", "z", "z">>

RedPadded == <<" ", "R", "e", "d", " ">>

\* the answer texts of the catalogs: two that differ in case only, two whose
\* cleaned forms are equal, one of punctuation only, one empty, one short
CatalogTexts == {Red, red, FlowBang, FlowText, Bang, <<>>, zz}

\* the texts submitted to normalize_answer
InputTexts == CatalogTexts \cup {zzzz, RedPadded}

\* the rows of a catalog whose i-th answer has the text texts[i]
RowsOfTexts(texts) ==
    [i \in 1..Len(texts) |->
        AnswerRow(IF i = 1 THEN "ANSWER_P" ELSE IF i = 2 THEN "ANSWER_Q" ELSE "ANSWER_S",
                  texts[i], "c", ZeroAxes)]

InitNormalizeAnswer ==
    /\ svc = "down" /\ disk = "A" /\ csv_path = DefaultPath
    /\ \E texts \in SeqsUpTo(CatalogTexts, MaxCatalogAnswers) :
          /\ answers = BuildAnswers(RowsOfTexts(texts), <<>>)
          /\ normalizer = NewNormalizer(BuildAnswers(RowsOfTexts(texts), <<>>))
    /\ alignments = <<>> /\ last_updated = 0
    /\ collection = NoCollection
    /\ config = DefaultConfig
    /\ clock = 0
    /\ r = IdleReload
    /\ m = IdleMatch
    /\ \E answer_text \in InputTexts :
          p = [pc |-> "in", answer_text |-> answer_text, answer_id |-> None]

ApplyNormalizeAnswer ==
    /\ p.pc = "in"
    /\ p' = [p EXCEPT !.pc = "out",
                      !.answer_id = NormalizeAnswer(normalizer, p.answer_text)]
    /\ UNCHANGED <<svc, disk, csv_path, answers, alignments, last_updated, collection,
                   normalizer, config, clock, r, m>>

SpecNormalizeAnswer == InitNormalizeAnswer /\ [][ApplyNormalizeAnswer]_vars

\* no two answers of the catalog have the same text
DistinctTexts ==
    \A i, j \in 1..Len(answers) : i # j => answers[i].v.text # answers[j].v.text

\* C17: normalize_answer applied to the exact catalog text of an answer
\* returns the id of that answer, in every catalog (stated here for the
\* catalogs whose texts are pairwise different, those that differ in case
\* or punctuation only included).
C17_OwnTextOwnId ==
    (p.pc = "out" /\ DistinctTexts) =>
        \A i \in 1..Len(answers) :
            answers[i].v.text = p.answer_text => p.answer_id = answers[i].k

\* the cleaned form of the text is no catalog text and no catalog text is a
\* substring or a superstring of it
Unrelated(answer_text) ==
    \A i \in 1..Len(answers) :
        LET catalog_text == Strip(Lower(answers[i].v.text))
        IN  /\ CleanText(answer_text) # catalog_text
            /\ ~Contains(CleanText(answer_text), catalog_text)
            /\ ~Contains(catalog_text, CleanText(answer_text))

\* C18: normalize_answer returns None for every text unrelated to the
\* catalog, also when the catalog holds an answer whose text is empty or
\* made of punctuation only.
C18_UnrelatedIsNone ==
    (p.pc = "out" /\ Unrelated(p.answer_text)) => p.answer_id = None

----------------------------------------------------------------------------
(* AnswerNormalizer.normalize_quiz_answers and get_unmatched_answers on    *)
(* submissions of two questions (specification SpecNormalizeQuiz).         *)

MaxSlots == 3              \* selected texts in one submission of the quiz
QuestionIds == {1, 2}

\* a selected text, the question it answers and whether it is a flat answer
\* or the answer of the sub-question
Slots == [text : {Red, FlowText, zz}, question : QuestionIds, kind : {"flat", "sub"}]

\* the texts of the slots of question q and kind k, in the order selected
TextsOf(slots, q, k) ==
    LET keep == SelectIdx(slots, {i \in 1..Len(slots) :
                                     slots[i].question = q /\ slots[i].kind = k}, 1)
    IN  [i \in 1..Len(keep) |-> keep[i].text]

\* the submission: one quiz item per question
QuizOf(slots) ==
    [q \in 1..Cardinality(QuestionIds) |->
        [answers |-> TextsOf(slots, q, "flat"),
         sub_questions |-> IF TextsOf(slots, q, "sub") = <<>> THEN <<>>
                           ELSE << [sub_answers |-> TextsOf(slots, q, "sub")] >>]]

InitNormalizeQuiz ==
    /\ svc = "down" /\ disk \in {"A", "B"} /\ csv_path = DefaultPath
    /\ answers = CatalogAnswers(disk)
    /\ normalizer = NewNormalizer(CatalogAnswers(disk))
    /\ alignments = <<>> /\ last_updated = 0
    /\ collection = NoCollection
    /\ config = DefaultConfig
    /\ clock = 0
    /\ r = IdleReload
    /\ m = IdleMatch
    /\ \E slots \in SeqsUpTo(Slots, MaxSlots) :
          p = [pc |-> "in", slots |-> slots, quiz_answers |-> QuizOf(slots),
               normalized |-> <<>>, unmatched |-> <<>>, later |-> <<>>]

\* match line 78
ApplyNormalizeQuiz ==
    /\ p.pc = "in"
    /\ p' = [p EXCEPT !.pc = "normalized",
                      !.normalized = NormalizeQuizAnswers(normalizer, p.quiz_answers)]
    /\ UNCHANGED <<svc, disk, csv_path, answers, alignments, last_updated, collection,
                   normalizer, config, clock, r, m>>

\* match line 88; the normalizer is only read
ApplyGetUnmatched ==
    /\ p.pc = "normalized"
    /\ p' = [p EXCEPT !.pc = "diagnosed",
                      !.unmatched = GetUnmatchedAnswers(normalizer, p.quiz_answers)]
    /\ UNCHANGED <<svc, disk, csv_path, answers, alignments, last_updated, collection,
                   normalizer, config, clock, r, m>>

\* the same submission in a later match
ApplyNormalizeLater ==
    /\ p.pc = "diagnosed"
    /\ p' = [p EXCEPT !.pc = "out",
                      !.later = NormalizeQuizAnswers(normalizer, p.quiz_answers)]
    /\ UNCHANGED <<svc, disk, csv_path, answers, alignments, last_updated, collection,
                   normalizer, config, clock, r, m>>

NextNormalizeQuiz ==
    \/ ApplyNormalizeQuiz
    \/ ApplyGetUnmatched
    \/ ApplyNormalizeLater

SpecNormalizeQuiz == InitNormalizeQuiz /\ [][NextNormalizeQuiz]_vars

\* the raw texts in the order the claim gives: question by question, the
\* flat answers of a question before the answers of its sub-question
RECURSIVE InOrderFrom(_, _)
InOrderFrom(slots, q) ==
    IF q > Cardinality(QuestionIds) THEN <<>>
    ELSE TextsOf(slots, q, "flat") \o TextsOf(slots, q, "sub")
         \o InOrderFrom(slots, q + 1)

RawInOrder == InOrderFrom(p.slots, 1)

\* the positions of RawInOrder whose text normalizes
Matched == {i \in 1..Len(RawInOrder) : NormalizeAnswer(normalizer, RawInOrder[i]) # None}

\* the ids of the texts that normalize, in input order
IdsInOrder ==
    LET keep == SelectIdx(RawInOrder, Matched, 1)
    IN  [i \in 1..Len(keep) |-> NormalizeAnswer(normalizer, keep[i])]

\* C19: selection_order comes from one counter for the whole submission:
\* questions in array order, in a question the flat answers before the
\* sub-question answers; the i-th entry (from 0) has selection_order i, and
\* a text that does not normalize takes no number.
C19_OneSharedCounter ==
    p.pc # "in" =>
        /\ \A i \in 1..Len(p.normalized) : p.normalized[i].selection_order = i - 1
        /\ [i \in 1..Len(p.normalized) |-> p.normalized[i].answer_id] = IdsInOrder

\* a text that does not normalize in the first question, then a flat answer
\* selected after a sub-question answer of the same question: the flat
\* answer has number 0, the sub-question answer number 1
C19_Witness ==
    /\ p.pc = "out"
    /\ Len(p.slots) = 3
    /\ p.slots[1] = [text |-> zz, question |-> 1, kind |-> "flat"]
    /\ p.slots[2] = [text |-> FlowText, question |-> 2, kind |-> "sub"]
    /\ p.slots[3] = [text |-> Red, question |-> 2, kind |-> "flat"]
    /\ Len(p.normalized) = 2
    /\ p.normalized[1].answer_id = "COLOR_RED" /\ p.normalized[1].selection_order = 0
    /\ p.normalized[2].selection_order = 1

\* C20: a text that matches no rule is dropped and the rest is processed:
\* every raw text is in exactly one of the normalized list and the list of
\* get_unmatched_answers, the texts that normalize keep their input order,
\* and get_unmatched_answers leaves the result of a later match unchanged.
C20_DroppedNotAborted ==
    p.pc = "out" =>
        /\ Len(p.normalized) + Len(p.unmatched) = Len(p.slots)
        /\ [i \in 1..Len(p.normalized) |-> p.normalized[i].answer_id] = IdsInOrder
        /\ p.unmatched = SelectIdx(RawInOrder, (1..Len(RawInOrder)) \ Matched, 1)
        /\ p.later = p.normalized

\* a sub-question answer that does not normalize between two that do
C20_Witness ==
    /\ p.pc = "out"
    /\ Len(p.slots) = 3
    /\ p.slots[1].kind = "flat" /\ p.slots[2].kind = "sub" /\ p.slots[3].kind = "flat"
    /\ p.slots[1].question = 1 /\ p.slots[2].question = 1 /\ p.slots[3].question = 2
    /\ p.unmatched = <<zz>>
    /\ Len(p.normalized) = 2

----------------------------------------------------------------------------
(* The normalizer after reloads (specification Spec).                      *)

\* the service is up and no load of the catalog has failed
CompletedReloads == svc = "up" /\ r.pc = "idle" /\ r.failures = 0

\* the lookup table holds nothing but keys of the current answers: every
\* entry is the lower-cased or the cleaned text of the answer it names
TableFromCurrentAnswers ==
    /\ normalizer.answers_db = answers
    /\ \A i \in 1..Len(normalizer.text_to_id) :
          \E j \in 1..Len(answers) :
              /\ answers[j].k = normalizer.text_to_id[i].v
              /\ normalizer.text_to_id[i].k \in
                     {Strip(Lower(answers[j].v.text)), CleanText(answers[j].v.text)}
    /\ \A j \in 1..Len(answers) :
          DictHas(normalizer.text_to_id, Strip(Lower(answers[j].v.text)))

\* the texts of the answers of a catalog
TextsOfCatalog(ans) == {ans[j].v.text : j \in 1..Len(ans)}

\* C21 as stated: after completed reloads the normalizer is built from the
\* current answers, and a text that only the previous catalog held does not
\* normalize any more.
C21_OldTextsForgotten ==
    (CompletedReloads /\ r.status = "ok" /\ r.mode = "reload") =>
        /\ TableFromCurrentAnswers
        /\ \A t \in TextsOfCatalog(r.pre.answers) \ TextsOfCatalog(answers) :
              NormalizeAnswer(normalizer, t) = None

\* C21 amended: after completed reloads the normalizer is built from exactly
\* the current answers: every id it can return is a key of the answers,
\* every current answer text is a key of the table, and no key of a previous
\* catalog is left in the table; a text of a previous catalog normalizes
\* only through the rules applied to the keys of the current answers.
C21_NormalizerIsCurrent ==
    CompletedReloads =>
        /\ TableFromCurrentAnswers
        /\ \A t \in RawTexts \cup {FlowBang} :
              NormalizeAnswer(normalizer, t) # None =>
                  DictHas(answers, NormalizeAnswer(normalizer, t))

\* a reload replaced catalog A by catalog B: NAV_FLOW is gone from the
\* answers and from the table
C21_Witness ==
    /\ CompletedReloads /\ r.status = "ok" /\ r.mode = "reload"
    /\ DictHas(r.pre.answers, "NAV_FLOW") /\ ~DictHas(answers, "NAV_FLOW")
    /\ DictHas(answers, "MOOD_FLOW")
    /\ TableFromCurrentAnswers

----------------------------------------------------------------------------
(* Two runs of Alignment.match on one catalog and one submission           *)
(* (specification SpecTwoRuns). reload_from_csv stores the categories of   *)
(* an alignment as list(set(...)): the order of that list is the iteration *)
(* order of a set of strings, which differs from one load to another.      *)

CategoryOrders == {"forward", "backward"}

CategoryNames == <<"color", "mood", "nav">>

\* list(set(...)) under one iteration order of the set
ListOfSet(S, order) ==
    LET n == Len(CategoryNames)
        base == IF order = "forward" THEN CategoryNames
                ELSE [i \in 1..n |-> CategoryNames[n + 1 - i]]
    IN  SelectIdx(base, {i \in 1..n : base[i] \in S}, 1)

\* self.alignments as a load stores it: "categories" is a list
StoredAlignments(als, order) ==
    [i \in 1..Len(als) |->
        [k |-> als[i].k,
         v |-> [als[i].v EXCEPT !.categories = ListOfSet(als[i].v.categories, order)]]]

\* faulty variant, for sensitivity: only the first stored category counts
CategorySetFirstOnly(categories) ==
    IF categories = <<>> THEN {} ELSE {categories[1]}

\* set(alignment["categories"]) (lines 187 and 239)
CategorySet(categories) == Range(categories)

\* the catalog as the tiers read it
ReadAlignments(stored) ==
    [i \in 1..Len(stored) |->
        [k |-> stored[i].k,
         v |-> [stored[i].v EXCEPT !.categories = CategorySet(stored[i].v.categories)]]]

\* Alignment.match lines 92-116 on the normalized answers, without an
\* explicit max_results
MatchTiers(als, normalized) ==
    LET user_profile == CalculateUserProfile(normalized)
        user_answer_ids == {normalized[i].answer_id : i \in 1..Len(normalized)}
        user_categories == {normalized[i].category : i \in 1..Len(normalized)}
        tier1_results == Tier1ExactMatch(als, user_answer_ids, normalized)
        tier2_results == Tier2AxisMatch(als, user_profile, user_categories)
    IN  IF ShortCircuits(normalized) THEN [tier |-> "none", response |-> <<>>]
        ELSE IF Tier1Returns(tier1_results)
        THEN [tier |-> "exact",
              response |-> FormatResults(Take(tier1_results, config.max_results), "exact")]
        ELSE IF Tier2Accepted(tier2_results, config.axis_distance_threshold)
        THEN [tier |-> "axis",
              response |-> FormatResults(Take(tier2_results, config.max_results), "axis")]
        ELSE [tier |-> "tier3", response |-> <<>>]

\* Alignment.match up to Tier 2
MatchUpToTier2(stored, nz, request) ==
    MatchTiers(ReadAlignments(stored), NormalizeQuizAnswers(nz, request))

InitTwoRuns ==
    /\ svc = "down" /\ disk \in {"A", "B"} /\ csv_path = DefaultPath
    /\ answers = CatalogAnswers(disk)
    /\ normalizer = NewNormalizer(CatalogAnswers(disk))
    /\ alignments = CatalogAlignments(disk) /\ last_updated = 0
    /\ collection = NoCollection
    /\ config = DefaultConfig
    /\ clock = 0
    /\ r = IdleReload
    /\ m = IdleMatch
    /\ \E request \in Submissions, o1, o2 \in CategoryOrders :
          p = [pc |-> "in", request |-> request, first_order |-> o1, second_order |-> o2,
               first |-> [tier |-> "none", response |-> <<>>],
               second |-> [tier |-> "none", response |-> <<>>]]

ApplyFirstRun ==
    /\ p.pc = "in"
    /\ p' = [p EXCEPT !.pc = "once",
                      !.first = MatchUpToTier2(StoredAlignments(alignments, p.first_order),
                                               normalizer, p.request)]
    /\ UNCHANGED <<svc, disk, csv_path, answers, alignments, last_updated, collection,
                   normalizer, config, clock, r, m>>

ApplySecondRun ==
    /\ p.pc = "once"
    /\ p' = [p EXCEPT !.pc = "out",
                      !.second = MatchUpToTier2(StoredAlignments(alignments, p.second_order),
                                                normalizer, p.request)]
    /\ UNCHANGED <<svc, disk, csv_path, answers, alignments, last_updated, collection,
                   normalizer, config, clock, r, m>>

NextTwoRuns ==
    \/ ApplyFirstRun
    \/ ApplySecondRun

SpecTwoRuns == InitTwoRuns /\ [][NextTwoRuns]_vars

\* C22: two runs of match on the same catalog and the same submission that
\* end in Tier 1 or Tier 2 return the same list: same ids, same order, same
\* confidence and distance, ties on component count or distance included.
C22_SameResponseTwice ==
    (p.pc = "out" /\ (p.first.tier \in {"exact", "axis"} \/ p.second.tier \in {"exact", "axis"}))
        => p.first = p.second

\* two runs under different orders of the stored categories answered from
\* Tier 2 with two alignments at the same distance, one of them with two
\* categories
C22_Witness ==
    /\ p.pc = "out" /\ p.first_order # p.second_order
    /\ p.first.tier = "axis" /\ p.second.tier = "axis"
    /\ \E i, j \in 1..Len(p.first.response) :
          /\ i < j
          /\ p.first.response[i].distance = p.first.response[j].distance
    /\ \E i \in 1..Len(p.first.response) : p.first.response[i].id = "HARMONY_RED_FLOW"

----------------------------------------------------------------------------
(* The frame of Alignment.match (specification Spec).                      *)

\* C23: a step of match changes no shared state: the answers and alignments
\* of the data store, the normalizer and its lookup table, the Tier-3 index
\* and the configuration stay as they are, and no reload or rebuild of the
\* index is started, whichever tier answers.
C23_MatchChangesNothing ==
    [][(m' # m) => UNCHANGED <<answers, alignments, normalizer, collection, config,
                              last_updated, csv_path, svc, r>>]_vars

\* a match was answered by Tier 3 from a live index
C23_Witness ==
    /\ m.pc = "returned" /\ m.consulted = <<1, 2, 3>>
    /\ collection.handle = "live" /\ m.seen.collection = <<collection.ids>>
    /\ m.response # <<>>
    /\ answers # <<>> /\ alignments # <<>>
    /\ normalizer = NewNormalizer(answers)

----------------------------------------------------------------------------
(* The records of Tier 3 (specification Spec).                             *)

\* C24: every record returned from Tier 3 has confidence 0.5 and a
\* match_tier that tells where it came from: "vector" for a record of the
\* neighbor query, "category_fallback" for a record of the category
\* fallback, never a value of Tier 1 or Tier 2.
C24_Tier3TellsOrigin ==
    (m.pc = "returned" /\ m.consulted = <<1, 2, 3>>) =>
        \A i \in 1..Len(m.response) :
            /\ m.response[i].confidence = 50
            /\ m.response[i].match_tier \notin {"exact", "axis"}
            /\ m.response[i].match_tier =
                   IF m.tier3_results[i].match_type = "vector_similarity"
                   THEN "vector" ELSE "category_fallback"

----------------------------------------------------------------------------
(* The alignment reload_from_csv builds from one row, for every component  *)
(* list over known and unknown ids (specification SpecBuildAlignment).     *)

\* COLOR_GOLD is in no catalog, NAV_FLOW in catalog A only
ComponentIds == {"COLOR_RED", "NAV_FLOW", "COLOR_GOLD"}

InitBuildAlignment ==
    /\ svc = "down" /\ disk \in {"A", "B"} /\ csv_path = DefaultPath
    /\ answers = CatalogAnswers(disk)
    /\ normalizer = NewNormalizer(CatalogAnswers(disk))
    /\ alignments = <<>> /\ last_updated = 0
    /\ collection = NoCollection
    /\ config = DefaultConfig
    /\ clock = 0
    /\ r = IdleReload
    /\ m = IdleMatch
    /\ \E components \in SeqsUpTo(ComponentIds, MaxSeqLen) :
          p = [pc |-> "in", components |-> components]

\* lines 104-133 on one row of alignments_df
ApplyPutAlignment ==
    /\ p.pc = "in"
    /\ alignments' = PutAlignmentRow(alignments,
                                     AlignmentRow("BUILT", "SYNERGY", "Built", p.components),
                                     answers)
    /\ p' = [p EXCEPT !.pc = "out"]
    /\ UNCHANGED <<svc, disk, csv_path, answers, last_updated, collection,
                   normalizer, config, clock, r, m>>

SpecBuildAlignment == InitBuildAlignment /\ [][ApplyPutAlignment]_vars

\* the positions of the components that are answers of the catalog
Resolved == {i \in 1..Len(p.components) : DictHas(answers, p.components[i])}

\* lcm(1..n) / i, the weight 1/i of position i, for the resolved positions
PositionWeight(i) ==
    IF i \in Resolved THEN LcmUpTo(Len(p.components)) \div i ELSE 0

\* C25: in the alignment a reload builds, the component ids that are not in
\* the answer catalog take no part in the axes (the weighted average, by
\* position, of the resolved components) nor in the categories but stay in
\* the components list; categories is the set of categories of the resolved
\* components; with no resolved component the axes are all 0 and the
\* category set is empty.
C25_UnresolvedExcluded ==
    p.pc = "out" =>
        LET built == alignments[1].v
            n == Len(p.components)
            total == SumSeq([i \in 1..n |-> PositionWeight(i)])
            sum(a) == SumSeq([i \in 1..n |->
                                IF i \in Resolved
                                THEN PositionWeight(i) * DictGet(answers, p.components[i]).axes[a]
                                ELSE 0])
        IN  /\ built.components = p.components
            /\ built.categories =
                   {DictGet(answers, p.components[i]).category : i \in Resolved}
            /\ built.axes.den > 0
            /\ \A a \in AxisNames : built.axes.num[a] * total = built.axes.den * sum(a)
            /\ Resolved = {} =>
                   /\ \A a \in AxisNames : built.axes.num[a] = 0
                   /\ built.categories = {}

\* an unknown id listed before two known ones: energy is (3/2)/(5/6) = 9/5
\* and pace (4/3)/(5/6) = 8/5
C25_Witness ==
    /\ p.pc = "out" /\ disk = "A"
    /\ p.components = <<"COLOR_GOLD", "COLOR_RED", "NAV_FLOW">>
    /\ alignments[1].v.components = p.components
    /\ alignments[1].v.categories = {"color", "nav"}
    /\ 5 * alignments[1].v.axes.num["energy"] = 9 * alignments[1].v.axes.den
    /\ 5 * alignments[1].v.axes.num["pace"] = 8 * alignments[1].v.axes.den

----------------------------------------------------------------------------
(* The three rules of normalize_answer (specification SpecNormalizeAnswer). *)

\* the key at position i of the table contains the cleaned input or is
\* contained in it
Related(i) ==
    \/ Contains(normalizer.text_to_id[i].k, CleanText(p.answer_text))
    \/ Contains(CleanText(p.answer_text), normalizer.text_to_id[i].k)

\* C26: normalize_answer returns the id stored under the lower-cased trimmed
\* input if there is one; else the id stored under the cleaned input if
\* there is one; else, only when the cleaned input is longer than 3
\* characters, the id of the first key in iteration order that contains or
\* is contained in the cleaned input; else None.
C26_ThreeRulesInOrder ==
    p.pc = "out" =>
        LET t2i == normalizer.text_to_id
            by_exact == DictHas(t2i, Strip(Lower(p.answer_text)))
            by_clean == DictHas(t2i, CleanText(p.answer_text))
        IN  /\ by_exact => p.answer_id = DictGet(t2i, Strip(Lower(p.answer_text)))
            /\ (~by_exact /\ by_clean) =>
                   p.answer_id = DictGet(t2i, CleanText(p.answer_text))
            /\ (~by_exact /\ ~by_clean /\ Len(CleanText(p.answer_text)) <= 3) =>
                   p.answer_id = None
            /\ (~by_exact /\ ~by_clean /\ Len(CleanText(p.answer_text)) > 3) =>
                   IF \E i \in 1..Len(t2i) : Related(i)
                   THEN \E i \in 1..Len(t2i) :
                           /\ Related(i) /\ p.answer_id = t2i[i].v
                           /\ \A j \in 1..(i - 1) : ~Related(j)
                   ELSE p.answer_id = None

\* the substring rule chose between two related keys of different answers:
\* "zzzz" contains the key "zz" of the first answer and the empty key of
\* the second
C26_Witness ==
    /\ p.pc = "out" /\ p.answer_text = zzzz
    /\ ~DictHas(normalizer.text_to_id, zzzz)
    /\ Len(normalizer.text_to_id) >= 2
    /\ normalizer.text_to_id[1] = [k |-> zz, v |-> "ANSWER_P"]
    /\ \E j \in 2..Len(normalizer.text_to_id) :
          Related(j) /\ normalizer.text_to_id[j].v = "ANSWER_Q"
    /\ p.answer_id = "ANSWER_P"

----------------------------------------------------------------------------
(* Alignment.match on catalogs with and without an alignment whose         *)
(* Alignment_Components cell holds no id, e.g. "+" (specification          *)
(* SpecEmptyComponents).                                                   *)

\* where the row without components stands among the alignment rows
EmptyRowPlaces == {"absent", "first", "last"}

EmptyRow == AlignmentRow("EMPTY_SET", "SYNERGY", "No component", <<>>)

AlignmentRowsWith(name, place) ==
    LET rows == AlignmentRows(Source(name).rows)
    IN  CASE place = "first" -> <<EmptyRow>> \o rows
          [] place = "last" -> Append(rows, EmptyRow)
          [] OTHER -> rows

\* the service is up on a loaded catalog and its index
InitEmptyComponents ==
    /\ svc = "up" /\ disk \in {"A", "B"} /\ csv_path = DefaultPath
    /\ answers = CatalogAnswers(disk)
    /\ normalizer = NewNormalizer(CatalogAnswers(disk))
    /\ \E place \in EmptyRowPlaces :
          /\ alignments = BuildAlignments(AlignmentRowsWith(disk, place), <<>>,
                                          CatalogAnswers(disk))
          /\ collection =
                 [handle |-> "live",
                  ids |-> DictKeys(BuildAlignments(AlignmentRowsWith(disk, place), <<>>,
                                                   CatalogAnswers(disk)))]
    /\ last_updated = 1
    /\ config = DefaultConfig
    /\ clock = 1
    /\ r = IdleReload
    /\ m = IdleMatch
    /\ p = NoHarness

NextEmptyComponents ==
    \/ /\ m.pc = "idle"
       /\ \E request \in Submissions, given \in BOOLEAN, arg \in MaxResultsArgs :
             MatchNormalize(request, given, arg)
    \/ MatchTier1
    \/ MatchTier2
    \/ MatchQuery
    \/ MatchQueryRaises
    \/ MatchTier3
    \/ MatchEnds

SpecEmptyComponents == InitEmptyComponents /\ [][NextEmptyComponents]_vars

HoldsEmptyRecord == \E i \in 1..Len(alignments) : alignments[i].v.components = <<>>

\* C27: while the catalog holds an alignment with an empty component list,
\* Tier 1 returns that alignment for every submission that normalizes to at
\* least one answer: the request is answered as "exact" with confidence 1.0
\* and Tier 2 and Tier 3 are never reached.
C27_EmptyComponentsAlwaysExact ==
    (HoldsEmptyRecord /\ m.pc # "idle" /\ m.normalized_answers # <<>>) =>
        /\ m.pc \in {"normalized", "returned"}
        /\ m.pc = "returned" =>
              /\ m.consulted = <<1>>
              /\ \E k \in 1..Len(m.tier1_results) :
                    m.tier1_results[k].alignment.components = <<>>
              /\ Len(m.response) = Min2(m.max_results, Len(m.tier1_results))
              /\ \A i \in 1..Len(m.response) :
                    /\ m.response[i].match_tier = "exact"
                    /\ m.response[i].confidence = 100

\* catalog B with the record: the answer 'Flow', which no other alignment
\* of the catalog matches or shares a category with, is answered "exact"
C27_Witness ==
    /\ HoldsEmptyRecord /\ disk = "B"
    /\ m.pc = "returned" /\ m.consulted = <<1>>
    /\ m.request = FlatQuiz(<<FlowText>>)
    /\ Len(m.response) = 1
    /\ m.response[1].id = "EMPTY_SET"
    /\ m.response[1].match_tier = "exact" /\ m.response[1].confidence = 100

----------------------------------------------------------------------------
(* Alignments with components that are not answers (specification Spec).   *)

\* the alignment lists a component that is not an answer of the data store
HasUnknownComponent(alignment) ==
    ~(Range(alignment.components) \subseteq DictKeys(answers))

\* the alignment has components and none of them is an answer
NoneResolves(alignment) ==
    /\ alignment.components # <<>>
    /\ Range(alignment.components) \cap DictKeys(answers) = {}

\* the tiers return such alignments from the neighbor query only
UnknownOnlyByQuery ==
    /\ \A k \in 1..Len(m.tier1_results) :
          ~HasUnknownComponent(m.tier1_results[k].alignment)
    /\ \A k \in 1..Len(m.tier2_results) : ~NoneResolves(m.tier2_results[k].alignment)
    /\ \A k \in 1..Len(m.tier3_results) :
          NoneResolves(m.tier3_results[k].alignment) =>
              m.tier3_results[k].match_type = "vector_similarity"
    /\ m.pc = "returned" =>
          \A i \in 1..Len(m.response) :
              NoneResolves(RawOfResponse[i].alignment) =>
                  /\ m.consulted = <<1, 2, 3>>
                  /\ RawOfResponse[i].match_type = "vector_similarity"

----------------------------------------------------------------------------
(* The records of an accepted Tier 2 (specification Spec).                 *)

\* the alignments of the catalog that share a category with the user
Overlapping ==
    {i \in 1..Len(m.view) : m.view[i].v.categories \cap m.user_categories # {}}

\* C29: when Tier 2 is accepted the first record is below the threshold and
\* nothing more is filtered: the "axis" response is made of the first
\* max_results category-overlapping alignments in ascending distance, those
\* at distance 3.0 or more included, each of these with confidence 0.5.
C29_NoPerRecordFilter ==
    (m.pc = "returned" /\ m.consulted = <<1, 2>>) =>
        /\ DistLess(m.tier2_results[1].distance, DistOf(3))
        /\ Len(m.tier2_results) = Cardinality(Overlapping)
        /\ Len(m.response) = Min2(m.max_results, Cardinality(Overlapping))
        /\ \A i \in 1..Len(m.response) :
              /\ m.response[i].id = m.tier2_results[i].alignment.id
              /\ \E k \in Overlapping : m.view[k].v.id = m.response[i].id
              /\ \A j \in (i + 1)..Len(m.tier2_results) :
                    ~DistLess(m.tier2_results[j].distance, m.tier2_results[i].distance)
              /\ ~DistLess(m.response[i].distance, DistOf(3)) =>
                    m.response[i].confidence = 50

\* an "axis" response whose first record is below 3.0 and whose last record
\* is beyond 3.0, with confidence 0.5
C29_Witness ==
    /\ m.pc = "returned" /\ m.consulted = <<1, 2>>
    /\ Len(m.response) >= 2
    /\ DistLess(m.response[1].distance, DistOf(3))
    /\ DistLess(DistOf(3), m.response[Len(m.response)].distance)
    /\ m.response[Len(m.response)].confidence = 50
    /\ m.response[Len(m.response)].match_tier = "axis"

----------------------------------------------------------------------------
(* AlignmentIngestionService._ensure_unique_ids and the upsert that        *)
(* follows it in ingest_file (specification SpecEnsureUniqueIds).          *)

MaxRecords == 3            \* records parsed from one uploaded file

IdA == <<"a">>
IdA2 == <<"a", "-", "2">>
IdB == <<"b">>

\* the ids _build_identifier gives the records; <<>> is an empty id
RecordIds == {IdA, IdA2, IdB, <<>>}

\* the literal "record" that stands in for an empty id
RecordWord == <<"r", "e", "c", "o", "r", "d">>

\* str(count) for the counts a file of at most 9 records can reach
DecimalOf(count) == << <<"1", "2", "3", "4", "5", "6", "7", "8", "9">>[count] >>

\* the loop of _ensure_unique_ids from records[i] on; ids are the "id"
\* fields of the records, rewritten in place
RECURSIVE EnsureUniqueFrom(_, _, _)
EnsureUniqueFrom(ids, i, seen) ==
    IF i > Len(ids) THEN ids
    ELSE LET base_id == IF ids[i] = <<>> THEN RecordWord ELSE ids[i]
             count == (IF DictHas(seen, base_id) THEN DictGet(seen, base_id) ELSE 0) + 1
             seen1 == DictPut(seen, base_id, count)
         IN  IF count = 1 THEN EnsureUniqueFrom(ids, i + 1, seen1)
             ELSE EnsureUniqueFrom([ids EXCEPT ![i] = base_id \o <<"-">> \o DecimalOf(count)],
                                   i + 1, seen1)

\* AlignmentIngestionService._ensure_unique_ids
EnsureUniqueIds(ids) == EnsureUniqueFrom(ids, 1, <<>>)

\* AlignmentsVectorStore.upsert: the id each record is written under; an
\* empty id is replaced by a fresh uuid4
UpsertIds(ids) ==
    [i \in 1..Len(ids) |-> IF ids[i] = <<>> THEN <<"uuid">> \o DecimalOf(i) ELSE ids[i]]

InitEnsureUniqueIds ==
    /\ svc = "down" /\ disk = "A" /\ csv_path = DefaultPath
    /\ answers = <<>> /\ alignments = <<>> /\ last_updated = 0
    /\ normalizer = NewNormalizer(<<>>)
    /\ collection = NoCollection
    /\ config = DefaultConfig
    /\ clock = 0
    /\ r = IdleReload
    /\ m = IdleMatch
    /\ \E ids \in SeqsUpTo(RecordIds, MaxRecords) :
          p = [pc |-> "parsed", parsed |-> ids, ids |-> ids, written |-> {}]

\* ingest_file line 37 (no record: lines 33-34 return before it)
ApplyEnsureUniqueIds ==
    /\ p.pc = "parsed" /\ p.ids # <<>>
    /\ p' = [p EXCEPT !.pc = "unique", !.ids = EnsureUniqueIds(p.ids)]
    /\ UNCHANGED <<svc, disk, csv_path, answers, alignments, last_updated, collection,
                   normalizer, config, clock, r, m>>

\* ingest_file lines 38-39: the collection keeps one record per id
ApplyUpsert ==
    /\ p.pc = "unique"
    /\ p' = [p EXCEPT !.pc = "out", !.written = Range(UpsertIds(p.ids))]
    /\ UNCHANGED <<svc, disk, csv_path, answers, alignments, last_updated, collection,
                   normalizer, config, clock, r, m>>

NextEnsureUniqueIds ==
    \/ ApplyEnsureUniqueIds
    \/ ApplyUpsert

SpecEnsureUniqueIds == InitEnsureUniqueIds /\ [][NextEnsureUniqueIds]_vars

\* C30: after _ensure_unique_ids the ids of the records are pairwise
\* distinct, also when an original id has the form of a generated one
\* ("a", "a", "a-2"), so the upsert writes every record under an id of its
\* own.
C30_IdsPairwiseDistinct ==
    /\ p.pc \in {"unique", "out"} =>
          \A i, j \in 1..Len(p.ids) : i # j => p.ids[i] # p.ids[j]
    /\ p.pc = "out" => Cardinality(p.written) = Len(p.ids)

====
